---- MODULE Spec2Model ----
(***************************************************************************)
(* Model of gavlooth/hvm4-pathfinding: the generators that turn graph      *)
(* problems into HVM4 programs, the radix-4 trie those programs use, the   *)
(* native graph store and the result extraction walk.                      *)
(*                                                                         *)
(* A generated program is modelled by what its text computes: every        *)
(* @definition of the emitted text is one operator below, with the same    *)
(* name, the same case split and the same argument order.  A numeric       *)
(* switch  λ{0: a; 1: b; λn. c}(x)  yields a when x = 0, b when x = 1 and  *)
(* c applied to x itself otherwise; a constructor match  λ{#K: f}(#K{..})  *)
(* applies f to the fields.  Constructors are tuples headed by their tag:  *)
(* #QE{} = <<"QE">>, #QL{v} = <<"QL", v>>, #Q{a,b,c,d} = <<"Q", a,b,c,d>>; *)
(* the pairs #P{a,b} and #S{a,b} are <<a, b>>; lists are sequences.        *)
(***************************************************************************)
EXTENDS Integers, Sequences, FiniteSets, TLC

\* ------------------------------------------------------------------------
\* Bounds of the model
\* ------------------------------------------------------------------------
MaxTrieN == 5
MaxNodes == 3
MaxEdges == 3
MaxDepth == 3
MstMaxNodes == 3
MaxBiedges == 3
MstMaxW == 2
MstMaxRounds == 3
MaxCap == 3
BfMaxNodes == 3
BfMaxEdges == 3
DagMaxNodes == 4
DagMaxEdges == 3
DagMaxW == 2

\* ------------------------------------------------------------------------
\* Program constants
\* ------------------------------------------------------------------------
INF == 999999
HVM4_OK == 0
HVM4_ERR_INVALID_PARAM == -1
HVM4_ERR_ALLOC == -2
HVM4_ERR_HVM4_RUNTIME == -3
HVM4_ERR_NO_PATH == -4

\* ------------------------------------------------------------------------
\* Small helpers of the model
\* ------------------------------------------------------------------------
Min(a, b) == IF a < b THEN a ELSE b

\* the element of a one-element set
The(S) == CHOOSE x \in S : TRUE

\* the value of a comparison in the generated programs: 1 or 0
B(p) == IF p THEN 1 ELSE 0

\* ------------------------------------------------------------------------
\* Trie depth
\* ------------------------------------------------------------------------
\* `cap *= 4` on a uint32_t: (4 * cap) mod 2^32 = 4 * (cap mod 2^30)
mul4_u32(cap) == 4 * (cap % 1073741824)

\* the value that stands for a loop that never returns
NoReturn == 0 - 1

\* `while (cap < n) { depth++; cap *= 4; }`: the depth returned.  Once cap
\* has wrapped to 0 it stays 0 and, n being at least 1, the loop never exits.
RECURSIVE ceil_log4_loop(_, _, _)
ceil_log4_loop(n, d, cap) ==
  IF cap < n
    THEN IF cap = 0 THEN NoReturn ELSE ceil_log4_loop(n, d + 1, mul4_u32(cap))
    ELSE d

ceil_log4(n) == IF n <= 4 THEN 1 ELSE ceil_log4_loop(n, 1, 4)

ceil_log4_u32(n) == IF n <= 4 THEN 1 ELSE ceil_log4_loop(n, 1, 4)

\* ------------------------------------------------------------------------
\* Trie constructors
\* ------------------------------------------------------------------------
QE == <<"QE">>
QL(v) == <<"QL", v>>
Q(c0, c1, c2, c3) == <<"Q", c0, c1, c2, c3>>

\* ------------------------------------------------------------------------
\* Radix-4 trie of the library (gen_trie4_ops)
\* ------------------------------------------------------------------------
RECURSIVE q4_get(_, _, _)
q4_get(key, depth, t) ==
  IF t[1] = "QE" THEN INF
  ELSE IF t[1] = "QL" THEN t[2]
  ELSE LET slot == key % 4
           next == key \div 4
           nd   == depth - 1
       IN  IF slot = 0 THEN q4_get(next, nd, t[2])
           ELSE IF slot = 1 THEN q4_get(next, nd, t[3])
           ELSE IF slot = 2 THEN q4_get(next, nd, t[4])
           ELSE q4_get(next, nd, t[5])

q4_set_slot(slot, child) ==
  IF slot = 0 THEN Q(child, QE, QE, QE)
  ELSE IF slot = 1 THEN Q(QE, child, QE, QE)
  ELSE IF slot = 2 THEN Q(QE, QE, child, QE)
  ELSE Q(QE, QE, QE, child)

\* the #QL case of @q4_set: the old leaf is dropped
q4_set_leaf(old, val) == QL(val)

RECURSIVE q4_set(_, _, _, _)
q4_set(key, val, depth, t) ==
  IF t[1] = "QL" THEN q4_set_leaf(t[2], val)
  ELSE IF t[1] = "QE" THEN
    IF depth = 0 THEN QL(val)
    ELSE LET slot == key % 4
             next == key \div 4
             nd   == depth - 1
         IN  q4_set_slot(slot, q4_set(next, val, nd, QE))
  ELSE LET slot == key % 4
           next == key \div 4
           nd   == depth - 1
       IN  IF slot = 0 THEN Q(q4_set(next, val, nd, t[2]), t[3], t[4], t[5])
           ELSE IF slot = 1 THEN Q(t[2], q4_set(next, val, nd, t[3]), t[4], t[5])
           ELSE IF slot = 2 THEN Q(t[2], t[3], q4_set(next, val, nd, t[4]), t[5])
           ELSE Q(t[2], t[3], t[4], q4_set(next, val, nd, t[5]))

\* ------------------------------------------------------------------------
\* Radix-4 trie of the hybrid Bellman-Ford generator
\* ------------------------------------------------------------------------
RECURSIVE hb_q4_get(_, _, _)
q4_get_Q(slot, next, nd, c0, c1, c2, c3) ==
  IF slot = 0 THEN hb_q4_get(next, nd, c0)
  ELSE IF slot = 1 THEN hb_q4_get(next, nd, c1)
  ELSE IF slot = 2 THEN hb_q4_get(next, nd, c2)
  ELSE hb_q4_get(next, nd, c3)

hb_q4_get(key, depth, t) ==
  IF t[1] = "QE" THEN INF
  ELSE IF t[1] = "QL" THEN t[2]
  ELSE LET slot == key % 4
           next == key \div 4
           nd   == depth - 1
       IN  q4_get_Q(slot, next, nd, t[2], t[3], t[4], t[5])

\* @q4_get_lin returns #P{value, trie}: the value and the trie rebuilt
RECURSIVE q4_get_lin(_, _, _)
q4_get_lin_Q(slot, next, nd, c0, c1, c2, c3) ==
  IF slot = 0 THEN
    LET p == q4_get_lin(next, nd, c0) IN <<p[1], Q(p[2], c1, c2, c3)>>
  ELSE IF slot = 1 THEN
    LET p == q4_get_lin(next, nd, c1) IN <<p[1], Q(c0, p[2], c2, c3)>>
  ELSE IF slot = 2 THEN
    LET p == q4_get_lin(next, nd, c2) IN <<p[1], Q(c0, c1, p[2], c3)>>
  ELSE
    LET p == q4_get_lin(next, nd, c3) IN <<p[1], Q(c0, c1, c2, p[2])>>

q4_get_lin(key, depth, t) ==
  IF t[1] = "QE" THEN <<INF, QE>>
  ELSE IF t[1] = "QL" THEN <<t[2], QL(t[2])>>
  ELSE LET slot == key % 4
           next == key \div 4
           nd   == depth - 1
       IN  q4_get_lin_Q(slot, next, nd, t[2], t[3], t[4], t[5])

RECURSIVE hb_q4_set(_, _, _, _)
q4_set_QE_filled(slot, next, val, nd) ==
  LET child == hb_q4_set(next, val, nd, QE) IN Q(child, child, child, child)

q4_set_QE(slot, next, val, nd) ==
  IF slot = 0 THEN Q(hb_q4_set(next, val, nd, QE), QE, QE, QE)
  ELSE IF slot = 1 THEN Q(QE, hb_q4_set(next, val, nd, QE), QE, QE)
  ELSE IF slot = 2 THEN Q(QE, QE, hb_q4_set(next, val, nd, QE), QE)
  ELSE Q(QE, QE, QE, hb_q4_set(next, val, nd, QE))

q4_set_Q_shifted(slot, next, val, nd, c0, c1, c2, c3) ==
  IF slot = 0 THEN Q(c0, hb_q4_set(next, val, nd, c1), c2, c3)
  ELSE IF slot = 1 THEN Q(c0, c1, hb_q4_set(next, val, nd, c2), c3)
  ELSE IF slot = 2 THEN Q(c0, c1, c2, hb_q4_set(next, val, nd, c3))
  ELSE Q(hb_q4_set(next, val, nd, c0), c1, c2, c3)

q4_set_Q(slot, next, val, nd, c0, c1, c2, c3) ==
  IF slot = 0 THEN Q(hb_q4_set(next, val, nd, c0), c1, c2, c3)
  ELSE IF slot = 1 THEN Q(c0, hb_q4_set(next, val, nd, c1), c2, c3)
  ELSE IF slot = 2 THEN Q(c0, c1, hb_q4_set(next, val, nd, c2), c3)
  ELSE Q(c0, c1, c2, hb_q4_set(next, val, nd, c3))

hb_q4_set(key, val, depth, t) ==
  IF t[1] = "QL" THEN QL(val)
  ELSE IF t[1] = "QE" THEN
    IF depth = 0 THEN QL(val)
    ELSE LET slot == key % 4
             next == key \div 4
             nd   == depth - 1
         IN  q4_set_QE(slot, next, val, nd)
  ELSE LET slot == key % 4
           next == key \div 4
           nd   == depth - 1
       IN  q4_set_Q(slot, next, val, nd, t[2], t[3], t[4], t[5])

\* @q4_min_update_f returns #P{trie, changed}
RECURSIVE q4_min_update_f(_, _, _, _)
q4_muf_QE(slot, next, val, nd) ==
  LET p == q4_min_update_f(next, val, nd, QE)
  IN  IF slot = 0 THEN <<Q(p[1], QE, QE, QE), p[2]>>
      ELSE IF slot = 1 THEN <<Q(QE, p[1], QE, QE), p[2]>>
      ELSE IF slot = 2 THEN <<Q(QE, QE, p[1], QE), p[2]>>
      ELSE <<Q(QE, QE, QE, p[1]), p[2]>>

q4_muf_Q_flag(slot, next, val, nd, c0, c1, c2, c3) ==
  IF slot = 0 THEN
    LET p == q4_min_update_f(next, val, nd, c0) IN <<Q(p[1], c1, c2, c3), 1>>
  ELSE IF slot = 1 THEN
    LET p == q4_min_update_f(next, val, nd, c1) IN <<Q(c0, p[1], c2, c3), 1>>
  ELSE IF slot = 2 THEN
    LET p == q4_min_update_f(next, val, nd, c2) IN <<Q(c0, c1, p[1], c3), 1>>
  ELSE
    LET p == q4_min_update_f(next, val, nd, c3) IN <<Q(c0, c1, c2, p[1]), 1>>

q4_muf_Q(slot, next, val, nd, c0, c1, c2, c3) ==
  IF slot = 0 THEN
    LET p == q4_min_update_f(next, val, nd, c0) IN <<Q(p[1], c1, c2, c3), p[2]>>
  ELSE IF slot = 1 THEN
    LET p == q4_min_update_f(next, val, nd, c1) IN <<Q(c0, p[1], c2, c3), p[2]>>
  ELSE IF slot = 2 THEN
    LET p == q4_min_update_f(next, val, nd, c2) IN <<Q(c0, c1, p[1], c3), p[2]>>
  ELSE
    LET p == q4_min_update_f(next, val, nd, c3) IN <<Q(c0, c1, c2, p[1]), p[2]>>

q4_muf_QL_always(old, val) == <<QL(val), 1>>

\* the #QL case of @q4_min_update_f
q4_muf_QL(old, val) ==
  IF B(val < old) = 0 THEN <<QL(old), 0>> ELSE <<QL(val), 1>>

q4_min_update_f(key, val, depth, t) ==
  IF t[1] = "QL" THEN q4_muf_QL(t[2], val)
  ELSE IF t[1] = "QE" THEN
    IF depth = 0 THEN <<QL(val), 1>>
    ELSE LET slot == key % 4
             next == key \div 4
             nd   == depth - 1
         IN  q4_muf_QE(slot, next, val, nd)
  ELSE LET slot == key % 4
           next == key \div 4
           nd   == depth - 1
       IN  q4_muf_Q(slot, next, val, nd, t[2], t[3], t[4], t[5])

\* ------------------------------------------------------------------------
\* Result terms and their extraction (extract_nums, run_hvm4)
\* ------------------------------------------------------------------------
\* A term is <<"NUM", v>>, a constructor <<"CTR", children>> whose tag is
\* C00 + Len(children), or <<"LAM">> for any other kind of term.
Num(v) == <<"NUM", v>>
Ctr(kids) == <<"CTR", kids>>
\* a term that is neither a number nor a constructor, e.g. a lambda over body
Lam(body) == <<"LAM", body>>

\* the list literal [x1, ..., xk]: nested two-child cells ended by a nullary one
RECURSIVE ListTerm(_)
ListTerm(xs) ==
  IF xs = <<>> THEN Ctr(<<>>) ELSE Ctr(<<Num(Head(xs)), ListTerm(Tail(xs))>>)

\* the store `out[pos] = term_val(term)` of the NUM case
extract_store_unguarded(out, pos, max_out, v) ==
  IF pos + 1 <= Len(out) THEN [out EXCEPT ![pos + 1] = v] ELSE out

extract_store(out, pos, max_out, v) ==
  IF pos < max_out THEN [out EXCEPT ![pos + 1] = v] ELSE out

\* extract_nums returns <<out, pos>>: the buffer (slot i of the C array is
\* out[i + 1]) and the next write position.
RECURSIVE extract_nums(_, _, _, _)
\* a walk over the children that starts at the last one
RECURSIVE extract_children_last_first(_, _, _, _, _)
extract_children_last_first(kids, i, out, pos, max_out) ==
  IF i > Len(kids) THEN <<out, pos>>
  ELSE LET r == extract_nums(kids[Len(kids) + 1 - i], out, pos, max_out)
       IN  extract_children_last_first(kids, i + 1, r[1], r[2], max_out)

RECURSIVE extract_children(_, _, _, _, _)
extract_children(kids, i, out, pos, max_out) ==
  IF i > Len(kids) THEN <<out, pos>>
  ELSE LET r == extract_nums(kids[i], out, pos, max_out)
       IN  extract_children(kids, i + 1, r[1], r[2], max_out)

extract_nums(term, out, pos, max_out) ==
  IF term[1] = "NUM" THEN <<extract_store(out, pos, max_out, term[2]), pos + 1>>
  ELSE IF term[1] = "CTR" /\ Len(term[2]) = 0 THEN <<out, pos>>
  ELSE IF term[1] = "CTR" /\ Len(term[2]) = 2 THEN
    LET r == extract_nums(term[2][1], out, pos, max_out)
    IN  extract_nums(term[2][2], r[1], r[2], max_out)
  ELSE IF term[1] = "CTR" /\ Len(term[2]) >= 1 /\ Len(term[2]) <= 16 THEN
    extract_children(term[2], 1, out, pos, max_out)
  ELSE <<out, pos>>

\* ------------------------------------------------------------------------
\* Engine arena state and its lifecycle
\* ------------------------------------------------------------------------
\* The engine's globals, as the bridge and the library read and write them:
\*   arenas     which of the pointers BOOK, HEAP, TABLE are non-null
\*   BOOK       the nonzero entries of BOOK, as pairs <<id, heap location>>
\*   HEAP       the cells handed out since the slices were initialised
\*   TABLE      the name pointers; "" is a null or freed entry
\*   TABLE_LEN  the number of registered names
\*   PRIM_DEFS  the ids with a primitive definition
\*   PARSE_*, FRESH       parser bookkeeping
\*   itrs, s_pos, stack   WNF_ITRS_BANKS[0].itrs, WNF_BANKS[0].s_pos and
\*                        whether WNF_BANKS[0].stack is allocated (the loops
\*                        over the banks treat every bank alike)
\*   crashed    the process was killed by a fault
\*   ub         what this build does when a null or freed name pointer is
\*              dereferenced: fault ("crash") or compare unequal ("skip")
\*   dup        which definition the engine's parser keeps when a name that
\*              already has one is defined again: "new" or "old"
\*   stdout     the stream the C library's global `stdout` points to
\* Names have ids 0, 1, ...; the name with id i is TABLE[i + 1].

\* PARSE_FRESH_LAB = 0x800000
FRESH_LAB_BASE == 8388608

\* the names prim_init registers
BuiltinNames == <<"%prim_a", "%prim_b">>

\* the globals of a process that has not called init yet
EngStatic ==
  [arenas |-> {}, BOOK |-> {}, HEAP |-> <<>>, TABLE |-> <<>>, TABLE_LEN |-> 0,
   PRIM_DEFS |-> {}, PARSE_BINDS_LEN |-> 0, PARSE_FRESH_LAB |-> FRESH_LAB_BASE,
   PARSE_SEEN_FILES_LEN |-> 0, PARSE_FORK_SIDE |-> 0 - 1, FRESH |-> 1,
   itrs |-> 0, s_pos |-> 1, stack |-> FALSE, tid |-> 0, threads |-> 0,
   crashed |-> FALSE, ub |-> "crash", dup |-> "new", stdout |-> "terminal"]

\* BOOK[id]
BookAt(e, id) ==
  IF \E p \in e.BOOK : p[1] = id
    THEN (CHOOSE p \in e.BOOK : p[1] = id)[2] ELSE 0

\* BOOK[id] = loc
BookSet(e, id, loc) ==
  [e EXCEPT !.BOOK = {p \in e.BOOK : p[1] # id} \cup {<<id, loc>>}]

\* TABLE[i - 1], for a position i within TABLE_LEN
TableSlot(e, i) == IF i <= Len(e.TABLE) THEN e.TABLE[i] ELSE ""

\* the registered names, in id order
TableNames(e) == [i \in 1..e.TABLE_LEN |-> TableSlot(e, i)]

\* the scan of table_find: the first position of TABLE[0..TABLE_LEN) holding
\* `name`, or TABLE_LEN + 1 when none does
table_scan(e, name) ==
  The({IF hits = {} THEN e.TABLE_LEN + 1
       ELSE CHOOSE i \in hits : \A j \in hits : i <= j :
       hits \in {{i \in 1..e.TABLE_LEN : TableSlot(e, i) = name}}})

\* table_find(name, len): the id of `name`, registering it when the scan of
\* TABLE[0..TABLE_LEN) does not find it.  <<engine after, id>>.  A null or
\* freed entry met by the scan is dereferenced (undefined behaviour).
table_find(e, name) ==
  The({IF e.ub = "crash" /\ (\E i \in 1..(first - 1) : TableSlot(e, i) = "")
         THEN <<[e EXCEPT !.crashed = TRUE], 0>>
       ELSE IF first <= e.TABLE_LEN THEN <<e, first - 1>>
       ELSE <<[e EXCEPT !.TABLE = IF Len(e.TABLE) = e.TABLE_LEN
                                    THEN Append(e.TABLE, name)
                                    ELSE [i \in 1..(e.TABLE_LEN + 1) |->
                                            IF i = e.TABLE_LEN + 1 THEN name
                                            ELSE TableSlot(e, i)],
                        !.TABLE_LEN = e.TABLE_LEN + 1],
              e.TABLE_LEN>> :
       first \in {table_scan(e, name)}})

\* prim_init(): register every built-in name and give it a primitive definition
RECURSIVE prim_register(_, _)
prim_register(e, names) ==
  IF names = <<>> \/ e.crashed THEN e
  ELSE The({prim_register(e1, rest) :
              e1 \in {[f[1] EXCEPT !.PRIM_DEFS = @ \cup {f[2]}] :
                        f \in {table_find(e, Head(names))}},
              rest \in {Tail(names)}})

prim_init(e) == prim_register(e, BuiltinNames)

\* heap_init_slices() on released or zeroed pages: no cell is handed out yet
heap_init_slices(e) == [e EXCEPT !.HEAP = <<>>]

\* free(TABLE[i]) for every i < TABLE_LEN: the pointers stay, their targets go
free_table_entries(e) ==
  [e EXCEPT !.TABLE = [i \in 1..Len(e.TABLE) |->
                         IF i <= e.TABLE_LEN THEN "" ELSE e.TABLE[i]]]

\* no reset at all
reset_skipped(e) == e

\* the body of reset_hvm4 and of hvm4_lib_reset, whose statements on the
\* modelled state are the same
reset_no_len(e) ==
  LET e1 == free_table_entries(e)
      e2 == [e1 EXCEPT !.BOOK = {}]
      e3 == heap_init_slices(e2)
      e4 == [e3 EXCEPT !.PARSE_BINDS_LEN = 0,
                       !.PARSE_FRESH_LAB = FRESH_LAB_BASE,
                       !.PARSE_SEEN_FILES_LEN = 0,
                       !.PARSE_FORK_SIDE = 0 - 1,
                       !.FRESH = 1,
                       !.itrs = 0,
                       !.s_pos = IF e3.stack THEN 1 ELSE e3.s_pos,
                       !.tid = 0,
                       !.PRIM_DEFS = {}]
  IN  The({prim_init(e5) : e5 \in {e4}})

reset_keep_book(e) ==
  LET e1 == [free_table_entries(e) EXCEPT !.TABLE_LEN = 0]
      e3 == heap_init_slices(e1)
      e4 == [e3 EXCEPT !.PARSE_BINDS_LEN = 0,
                       !.PARSE_FRESH_LAB = FRESH_LAB_BASE,
                       !.PARSE_SEEN_FILES_LEN = 0,
                       !.PARSE_FORK_SIDE = 0 - 1,
                       !.FRESH = 1,
                       !.itrs = 0,
                       !.s_pos = IF e3.stack THEN 1 ELSE e3.s_pos,
                       !.tid = 0,
                       !.PRIM_DEFS = {}]
  IN  The({prim_init(e5) : e5 \in {e4}})

reset_hvm4(e) ==
  LET e1 == [free_table_entries(e) EXCEPT !.TABLE_LEN = 0]
      e2 == [e1 EXCEPT !.BOOK = {}]
      e3 == heap_init_slices(e2)
      e4 == [e3 EXCEPT !.PARSE_BINDS_LEN = 0,
                       !.PARSE_FRESH_LAB = FRESH_LAB_BASE,
                       !.PARSE_SEEN_FILES_LEN = 0,
                       !.PARSE_FORK_SIDE = 0 - 1,
                       !.FRESH = 1,
                       !.itrs = 0,
                       !.s_pos = IF e3.stack THEN 1 ELSE e3.s_pos,
                       !.tid = 0,
                       !.PRIM_DEFS = {}]
  IN  The({prim_init(e5) : e5 \in {e4}})

hvm4_lib_reset(e) == reset_hvm4(e)

\* ------------------------------------------------------------------------
\* Program text, parsing and evaluation
\* ------------------------------------------------------------------------
\* A program text is the sequence of the names it defines, in order, and the
\* term its @main normalises to: [defs |-> <<"f", "main">>, main |-> term].
\* The body of a definition other than main is the opaque term Body(name).
Source(defs, main) == [defs |-> defs, main |-> main]

Body(name) == <<"DEF", name>>

\* a heap cell the released pages read back as
ZeroTerm == <<"ZERO">>

\* parse_def(&s): every definition `@name = body` registers the name, stores
\* the body in a fresh heap cell and points BOOK[id] at it.  When the name
\* already has a definition, e.dup says which of the two is kept.
RECURSIVE parse_def(_, _, _)
parse_def(e, defs, main) ==
  IF defs = <<>> THEN [e EXCEPT !.FRESH = e.FRESH + 1]
  ELSE LET body == IF Head(defs) = "main" THEN main ELSE Body(Head(defs))
           store(e1, id) ==
             LET e2 == [e1 EXCEPT !.HEAP = Append(e1.HEAP, body)]
             IN  IF BookAt(e1, id) # 0 /\ e1.dup = "old" THEN e2
                 ELSE BookSet(e2, id, Len(e2.HEAP))
       IN  The({parse_def(e3, rest, main) :
                  e3 \in {store(f[1], f[2]) : f \in {table_find(e, Head(defs))}},
                  rest \in {Tail(defs)}})

\* HEAP[loc]
HeapAt(e, loc) == IF loc >= 1 /\ loc <= Len(e.HEAP) THEN e.HEAP[loc] ELSE ZeroTerm

\* eval_normalize(term_new_ref(main_id)): the normal form of @main's body,
\* and the evaluator's counters after the reduction
eval_normalize(e, main_id) ==
  [term |-> HeapAt(e, BookAt(e, main_id)),
   eng  |-> [e EXCEPT !.itrs = e.itrs + 1, !.stack = TRUE, !.s_pos = 1]]

\* Text is a sequence of characters; "\n" ends a line and " " stands for a
\* space or a tab.
Digits == <<"0", "1", "2", "3", "4", "5", "6", "7", "8", "9">>

IsDigit(c) == \E d \in 1..10 : Digits[d] = c

DigitVal(c) == (CHOOSE d \in 1..10 : Digits[d] = c) - 1

\* what the engine prints for a collapsed result: a number as its digits,
\* any other term as text that does not start with a digit; then a newline
Shown(t) ==
  IF t[1] = "NUM" /\ t[2] >= 0 /\ t[2] <= 9 THEN <<Digits[t[2] + 1], "\n">>
  ELSE <<"x", "\n">>

\* eval_collapse(main_ref, limit, 0, 0) prints its results, one per line, to
\* whatever stream stdout points to: `text` is what this evaluation prints.
\* printed = <<the stream written to, the characters written>>
eval_collapse(e, main_id, text) ==
  [printed |-> <<e.stdout, text>>,
   eng     |-> [e EXCEPT !.itrs = e.itrs + 1, !.stack = TRUE, !.s_pos = 1]]

\* `while (*line == ' ' || *line == '\t') line++`: the index of the first
\* character at or after i that is no blank, Len(buf) + 1 at the end
RECURSIVE skip_blanks(_, _)
skip_blanks(buf, i) ==
  IF i <= Len(buf) /\ buf[i] = " " THEN skip_blanks(buf, i + 1) ELSE i

\* the white space strtoul skips before the number
RECURSIVE skip_space(_, _)
skip_space(buf, i) ==
  IF i <= Len(buf) /\ buf[i] \in {" ", "\n"} THEN skip_space(buf, i + 1) ELSE i

\* the digits from i on: <<value, index after the last digit>>
RECURSIVE read_digits(_, _, _)
read_digits(buf, i, val) ==
  IF i <= Len(buf) /\ IsDigit(buf[i])
    THEN read_digits(buf, i + 1, 10 * val + DigitVal(buf[i]))
    ELSE <<val, i>>

\* strtoul(line, &end, 10) on text without sign characters, line = buf + i:
\* <<val, end>>, end = i when there are no digits
strtoul(buf, i) ==
  LET r == read_digits(buf, skip_space(buf, i), 0)
  IN  IF r[2] = skip_space(buf, i) THEN <<0, i>> ELSE r

\* strchr(line, '\n'): the index of the first newline at or after i, 0 (NULL)
\* when there is none
RECURSIVE strchr_nl(_, _)
strchr_nl(buf, i) ==
  IF i > Len(buf) THEN 0
  ELSE IF buf[i] = "\n" THEN i ELSE strchr_nl(buf, i + 1)

\* a loop over the captured text that does not test count against max_out
RECURSIVE parse_lines_unbounded(_, _, _, _, _)
parse_lines_unbounded(buf, i, out, count, max_out) ==
  IF i = 0 \/ i > Len(buf) THEN <<out, count>>
  ELSE LET j == skip_blanks(buf, i)
       IN  IF j > Len(buf) THEN <<out, count>>
           ELSE IF buf[j] = "\n" THEN parse_lines_unbounded(buf, j + 1, out, count, max_out)
           ELSE LET r   == strtoul(buf, j)
                    hit == r[2] # j
                    nl  == strchr_nl(buf, j)
                IN  parse_lines_unbounded(buf, IF nl = 0 THEN 0 ELSE nl + 1,
                      IF hit /\ count + 1 <= Len(out)
                        THEN [out EXCEPT ![count + 1] = r[1]] ELSE out,
                      IF hit THEN count + 1 ELSE count, max_out)

\* the loop of hvm4_run over the captured text, line = buf + i (i = 0: line
\* is NULL): <<out, count>>
RECURSIVE parse_lines(_, _, _, _, _)
parse_lines(buf, i, out, count, max_out) ==
  IF i = 0 \/ i > Len(buf) \/ ~(count < max_out) THEN <<out, count>>
  ELSE LET j == skip_blanks(buf, i)
       IN  IF j > Len(buf) THEN <<out, count>>
           ELSE IF buf[j] = "\n" THEN parse_lines(buf, j + 1, out, count, max_out)
           ELSE LET r   == strtoul(buf, j)
                    hit == r[2] # j
                    nl  == strchr_nl(buf, j)
                IN  parse_lines(buf, IF nl = 0 THEN 0 ELSE nl + 1,
                      IF hit THEN [out EXCEPT ![count + 1] = r[1]] ELSE out,
                      IF hit THEN count + 1 ELSE count, max_out)

\* a collapse mode that leaves stdout pointing at the capture stream
collapse_mode_unrestored(e, main_id, out, max_out, stream_ok, text) ==
  IF ~stream_ok
    THEN [eng |-> e, count |-> 0 - 1, out |-> out, evaluated |-> FALSE,
          during |-> "none", printed |-> <<>>]
    ELSE LET ev  == eval_collapse([e EXCEPT !.stdout = "memf"], main_id, text)
             buf == IF ev.printed[1] = "memf" THEN ev.printed[2] ELSE <<>>
             r   == parse_lines(buf, 1, out, 0, max_out)
         IN  [eng |-> ev.eng, count |-> r[2], out |-> r[1], evaluated |-> TRUE,
              during |-> ev.printed[1], printed |-> ev.printed]

\* the collapse branch of hvm4_run: open the capture stream, point stdout at
\* it, evaluate, point stdout back, read the numbers from the captured text.
\* during: the stream stdout pointed to while the evaluation ran
collapse_mode(e, main_id, out, max_out, stream_ok, text) ==
  IF ~stream_ok
    THEN [eng |-> e, count |-> 0 - 1, out |-> out, evaluated |-> FALSE,
          during |-> "none", printed |-> <<>>]
    ELSE LET old_stdout == e.stdout
             ev  == eval_collapse([e EXCEPT !.stdout = "memf"], main_id, text)
             buf == IF ev.printed[1] = "memf" THEN ev.printed[2] ELSE <<>>
             r   == parse_lines(buf, 1, out, 0, max_out)
         IN  [eng |-> [ev.eng EXCEPT !.stdout = old_stdout],
              count |-> r[2], out |-> r[1], evaluated |-> TRUE,
              during |-> ev.printed[1], printed |-> ev.printed]

\* run_hvm4(source, out, max_out) of the library.  copy_ok: whether the
\* malloc of the private copy succeeds.  [eng, count, out, evaluated]
run_hvm4_eager(e, source, out, max_out, copy_ok) ==
  IF ~copy_ok THEN [eng |-> e, count |-> 0 - 1, out |-> out, evaluated |-> FALSE]
  ELSE LET done(f) ==
             LET ev == eval_normalize(f[1], f[2])
                 r  == extract_nums(ev.term, out, 0, max_out)
             IN  [eng |-> ev.eng, count |-> r[2], out |-> r[1], evaluated |-> TRUE]
       IN  The({done(f) : f \in {table_find(e1, "main") :
                                  e1 \in {parse_def(e, source.defs, source.main)}}})

run_hvm4(e, source, out, max_out, copy_ok) ==
  IF ~copy_ok THEN [eng |-> e, count |-> 0 - 1, out |-> out, evaluated |-> FALSE]
  ELSE LET done(f) ==
             IF BookAt(f[1], f[2]) = 0
               THEN [eng |-> f[1], count |-> 0 - 1, out |-> out, evaluated |-> FALSE]
               ELSE LET ev == eval_normalize(f[1], f[2])
                        r  == extract_nums(ev.term, out, 0, max_out)
                    IN  [eng |-> ev.eng, count |-> r[2], out |-> r[1],
                         evaluated |-> TRUE]
       IN  The({done(f) : f \in {table_find(e1, "main") :
                                  e1 \in {parse_def(e, source.defs, source.main)}}})

\* hvm4_run(source, collapse_limit, out, max_out) of the bridge.
\* stream_ok: whether open_memstream succeeds, if it is called; text: what
\* eval_collapse prints, if it is called.
hvm4_run(e, source, collapse_limit, out, max_out, copy_ok, stream_ok, text) ==
  LET failed(e1) == [eng |-> e1, count |-> 0 - 1, out |-> out,
                     evaluated |-> FALSE, during |-> "none", printed |-> <<>>]
  IN  IF ~copy_ok THEN failed(e)
      ELSE LET done(f) ==
                 IF BookAt(f[1], f[2]) = 0 THEN failed(f[1])
                 ELSE IF collapse_limit > 0
                   THEN collapse_mode(f[1], f[2], out, max_out, stream_ok, text)
                 ELSE LET ev == eval_normalize(f[1], f[2])
                          r  == extract_nums(ev.term, out, 0, max_out)
                      IN  [eng |-> ev.eng, count |-> r[2], out |-> r[1],
                           evaluated |-> TRUE, during |-> f[1].stdout,
                           printed |-> <<>>]
           IN  The({done(f) : f \in {table_find(e1, "main") :
                                      e1 \in {parse_def(e, source.defs, source.main)}}})

\* hvm4_lib_init() of the bridge, whose callocs succeed (it exits otherwise).
\* TABLE_LEN and the parser and evaluator globals are not assigned.
hvm4_lib_init(e) ==
  LET e1 == [e EXCEPT !.threads = 1, !.tid = 0,
                      !.arenas = {"BOOK", "HEAP", "TABLE"},
                      !.BOOK = {}, !.TABLE = <<>>]
  IN  prim_init(heap_init_slices(e1))

\* hvm4_init() of the library: <<engine after, code>>.  calloc_ok: the set of
\* arenas whose calloc succeeds; nthreads: the thread count it configures.
hvm4_init(e, nthreads, calloc_ok) ==
  LET e1 == [e EXCEPT !.threads = nthreads, !.tid = 0,
                      !.arenas = calloc_ok, !.BOOK = {}, !.TABLE = <<>>]
  IN  IF calloc_ok # {"BOOK", "HEAP", "TABLE"}
        THEN <<[e1 EXCEPT !.HEAP = <<>>], HVM4_ERR_ALLOC>>
        ELSE <<prim_init(heap_init_slices(e1)), HVM4_OK>>

\* hvm4_lib_cleanup() and hvm4_cleanup(): the stack, the arenas and the name
\* strings are freed and the three pointers nulled; TABLE_LEN keeps its value
hvm4_cleanup(e) ==
  [e EXCEPT !.stack = FALSE, !.arenas = {}, !.BOOK = {}, !.HEAP = <<>>,
            !.TABLE = <<>>]

hvm4_lib_cleanup(e) == hvm4_cleanup(e)

\* ------------------------------------------------------------------------
\* Native graph store
\* ------------------------------------------------------------------------
\* an edge is <<src, dst, weight>>.  `alloc` is the number of slots of the
\* block g->edges points to; the struct itself records only `capacity`.
hvm4_graph_new(n) ==
  [n_nodes |-> n, n_edges |-> 0, capacity |-> 16, alloc |-> 16, edges |-> <<>>]

\* what a slot outside the allocated block may hold when it is read back:
\* memory the graph does not own, here an edge whose ends are no nodes
JunkEdge(G) == <<G.n_nodes, G.n_nodes, 0>>

\* hvm4_graph_add_edge that checks src only
graph_add_edge_src_only(G, src, dst, weight, grow_ok, oob) ==
  IF src >= G.n_nodes THEN <<G, HVM4_ERR_INVALID_PARAM>>
  ELSE LET grow == G.n_edges >= G.capacity
           G1   == IF grow THEN [G EXCEPT !.capacity = G.capacity * 2] ELSE G
       IN  IF grow /\ ~grow_ok THEN <<G1, HVM4_ERR_ALLOC>>
           ELSE <<[G1 EXCEPT !.alloc = G1.capacity,
                             !.edges = Append(G1.edges, <<src, dst, weight>>),
                             !.n_edges = G1.n_edges + 1], HVM4_OK>>

\* hvm4_graph_add_edge on a non-null handle: <<the graph after, the code>>.
\* grow_ok: whether realloc succeeds, if it is called.  The capacity is
\* doubled before realloc is checked, so a failed growth leaves capacity
\* above the block's size and a later store at edges[n_edges] falls outside
\* the block (undefined behaviour): oob chooses whether the slot then reads
\* back as stored or as foreign memory.
graph_add_edge(G, src, dst, weight, grow_ok, oob) ==
  IF src >= G.n_nodes \/ dst >= G.n_nodes THEN <<G, HVM4_ERR_INVALID_PARAM>>
  ELSE LET grow == G.n_edges >= G.capacity
           G1   == IF grow THEN [G EXCEPT !.capacity = G.capacity * 2] ELSE G
       IN  IF grow /\ ~grow_ok THEN <<G1, HVM4_ERR_ALLOC>>
           ELSE LET G2   == IF grow THEN [G1 EXCEPT !.alloc = G1.capacity] ELSE G1
                    slot == IF G2.n_edges < G2.alloc \/ oob = "stored"
                              THEN <<src, dst, weight>> ELSE JunkEdge(G)
                IN  <<[G2 EXCEPT !.edges = Append(G2.edges, slot),
                                 !.n_edges = G2.n_edges + 1], HVM4_OK>>

\* hvm4_graph_add_biedge on a non-null handle:
\* <<the graph after, the code, the number of edges appended>>
graph_add_biedge(G, a, b, weight, grow_ok1, grow_ok2, oob) ==
  LET r1 == graph_add_edge(G, a, b, weight, grow_ok1, oob)
  IN  IF r1[2] # HVM4_OK THEN <<r1[1], r1[2], 0>>
      ELSE LET r2 == graph_add_edge(r1[1], b, a, weight, grow_ok2, oob)
           IN  IF r2[2] # HVM4_OK THEN <<r2[1], r2[2], 1>>
               ELSE <<r2[1], HVM4_OK, 2>>

\* ------------------------------------------------------------------------
\* Inlined graph data of the library's programs
\* ------------------------------------------------------------------------
\* @adj(u): the destinations of u's edges in insertion order (λn. [] otherwise)
RECURSIVE gen_adjacency_list(_, _)
gen_adjacency_list(edges, u) ==
  IF edges = <<>> THEN <<>>
  ELSE IF Head(edges)[1] = u
    THEN <<Head(edges)[2]>> \o gen_adjacency_list(Tail(edges), u)
    ELSE gen_adjacency_list(Tail(edges), u)

\* @edges of the shortest-path program: #Edge{src, dst, weight} in insertion order
gen_edge_list(g) == g.edges

\* ------------------------------------------------------------------------
\* hvm4_shortest_path: the generated Bellman-Ford program
\* ------------------------------------------------------------------------
relax_edge(dist, edge, depth) ==
  LET u     == edge[1]
      v     == edge[2]
      w     == edge[3]
      du    == q4_get(u, depth, dist)
      new_d == du + w
      dv    == q4_get(v, depth, dist)
  IN  IF B(new_d < dv) = 0 THEN dist ELSE q4_set(v, new_d, depth, dist)

\* @foldl(@relax_edge, acc, list)
RECURSIVE foldl(_, _, _)
foldl(acc, list, depth) ==
  IF list = <<>> THEN acc
  ELSE foldl(relax_edge(acc, Head(list), depth), Tail(list), depth)

relax_round(dist, edges, depth) == foldl(dist, edges, depth)

\* @repeat(@relax_round, x, n)
\* a single relaxation round whatever the round count
repeat_once(x, n, edges, depth) ==
  IF n = 0 THEN x ELSE relax_round(x, edges, depth)

RECURSIVE repeat(_, _, _, _)
repeat(x, n, edges, depth) ==
  IF n = 0 THEN x ELSE repeat(relax_round(x, edges, depth), n - 1, edges, depth)

\* the value of @main: [@q4_get(0, @DEPTH, @bf), ..., @q4_get(n-1, @DEPTH, @bf)]
shortest_path_main(g, source) ==
  LET depth     == ceil_log4_u32(g.n_nodes)
      rounds    == IF g.n_nodes > 1 THEN g.n_nodes - 1 ELSE 1
      init_dist == q4_set(source, 0, depth, QE)
      bf        == repeat(init_dist, rounds, gen_edge_list(g), depth)
  IN  [i \in 1..g.n_nodes |-> q4_get(i - 1, depth, bf)]

\* the rounds @repeat(@relax_round, x, n) executes, in order: for each round
\* <<the distances it returns, 1 if they differ from the ones it got else 0>>
RECURSIVE repeat_rounds(_, _, _, _)
repeat_rounds(x, n, edges, depth) ==
  IF n = 0 THEN <<>>
  ELSE The({<<<<y, B(y # x)>>>> \o repeat_rounds(y, n - 1, edges, depth) :
              y \in {relax_round(x, edges, depth)}})

\* the rounds of @bf of the program hvm4_shortest_path emits
shortest_path_rounds(g, source) ==
  LET depth     == ceil_log4_u32(g.n_nodes)
      rounds    == IF g.n_nodes > 1 THEN g.n_nodes - 1 ELSE 1
      init_dist == q4_set(source, 0, depth, QE)
  IN  repeat_rounds(init_dist, rounds, gen_edge_list(g), depth)

\* ------------------------------------------------------------------------
\* hvm4_reachable: the generated two-frontier search
\* ------------------------------------------------------------------------
RECURSIVE member(_, _)
member(x, list) ==
  IF list = <<>> THEN 0
  ELSE IF B(Head(list) = x) = 0 THEN member(x, Tail(list)) ELSE 1

RECURSIVE any_in(_, _)
any_in(ys, list) ==
  IF list = <<>> THEN 0
  ELSE IF member(Head(list), ys) = 0 THEN any_in(ys, Tail(list)) ELSE 1

\* @concat_map(@adj, frontier): every member's neighbours, duplicates kept
RECURSIVE concat_map(_, _)
concat_map(edges, list) ==
  IF list = <<>> THEN <<>>
  ELSE gen_adjacency_list(edges, Head(list)) \o concat_map(edges, Tail(list))

expand(edges, frontier) == concat_map(edges, frontier)

RECURSIVE bfs(_, _, _, _, _)
bfs(fwd, bwd, dist, max, edges) ==
  IF B(dist > max) = 0 THEN
    IF any_in(bwd, fwd) = 0 THEN
      LET new_fwd == expand(edges, fwd)
      IN  bfs(bwd, new_fwd, dist + 1, max, edges)
    ELSE dist
  ELSE 999

\* the value of @main = @bfs([source], [target], 0, max_depth)
reachable_main(gr, source, target, max_depth) ==
  bfs(<<source>>, <<target>>, 0, max_depth, gr.edges)

\* ------------------------------------------------------------------------
\* hvm4_closure: the generated depth-bounded search
\* ------------------------------------------------------------------------
RECURSIVE can_reach(_, _, _, _)
RECURSIVE any_reaches(_, _, _, _)
any_reaches(dst, depth, list, edges) ==
  IF list = <<>> THEN 0
  ELSE IF can_reach(Head(list), dst, depth, edges) = 0
    THEN any_reaches(dst, depth, Tail(list), edges)
    ELSE 1

can_reach_same_depth(src, dst, depth, edges) ==
  IF depth = 0 THEN (IF B(src = dst) = 0 THEN 0 ELSE 1)
  ELSE IF B(src = dst) = 0
    THEN any_reaches(dst, depth - 1, gen_adjacency_list(edges, dst), edges)
    ELSE 1

can_reach(src, dst, depth, edges) ==
  IF depth = 0 THEN (IF B(src = dst) = 0 THEN 0 ELSE 1)
  ELSE IF B(src = dst) = 0
    THEN any_reaches(dst, depth - 1, gen_adjacency_list(edges, src), edges)
    ELSE 1

\* the value of @main: @can_reach(i, j, depth_limit) for i, j in row-major order
closure_main(gr, depth_limit) ==
  [k \in 1..(gr.n_nodes * gr.n_nodes) |->
     can_reach((k - 1) \div gr.n_nodes, (k - 1) % gr.n_nodes, depth_limit, gr.edges)]

\* ------------------------------------------------------------------------
\* hvm4_mst_boruvka: the generated Boruvka program
\* ------------------------------------------------------------------------
MST_INF == 999

\* @get(i, list): element i of a list, 0 past its end
RECURSIVE get(_, _)
get(i, list) ==
  IF list = <<>> THEN 0
  ELSE IF i = 0 THEN Head(list) ELSE get(i - 1, Tail(list))

\* a relabel that leaves every label as it is
relabel_none(old, new, list) == list

RECURSIVE relabel(_, _, _)
relabel(old, new, list) ==
  IF list = <<>> THEN <<>>
  ELSE <<IF B(Head(list) = old) = 0 THEN Head(list) ELSE new>>
         \o relabel(old, new, Tail(list))

\* @edge3 hands f the three fields of an edge, padded with 0, 0, @INF
edge3(list) ==
  IF list = <<>> THEN <<0, 0, MST_INF>>
  ELSE IF Len(list) = 1 THEN <<list[1], 0, MST_INF>>
  ELSE IF Len(list) = 2 THEN <<list[1], list[2], MST_INF>>
  ELSE <<list[1], list[2], list[3]>>

xor_eq(a, b) == IF a + b = 0 THEN 0 ELSE IF (a + b) - 1 = 0 THEN 1 ELSE 0

pick(cross, w, bw, edge, best) ==
  IF cross = 0 THEN best ELSE IF B(w < bw) = 0 THEN best ELSE edge

RECURSIVE min_cross(_, _, _)
min_cross(comp, c, list) ==
  IF list = <<>> THEN <<0, 0, MST_INF>>
  ELSE LET edge  == Head(list)
           best  == min_cross(comp, c, Tail(list))
           e     == edge3(edge)
           cu    == get(e[1], comp)
           cv    == get(e[2], comp)
           cross == xor_eq(B(cu = c), B(cv = c))
           b     == edge3(best)
       IN  pick(cross, e[3], b[3], <<e[1], e[2], e[3]>>, <<b[1], b[2], b[3]>>)

RECURSIVE all_mins(_, _, _, _)
all_mins(comp, edges, n, c) ==
  IF n = 0 THEN <<>>
  ELSE <<min_cross(comp, c, edges)>> \o all_mins(comp, edges, n - 1, c + 1)

\* a merge that adds every edge of the list, whatever the labels of its ends
RECURSIVE merge_always(_, _, _)
merge_always(comp, total, list) ==
  IF list = <<>> THEN <<comp, total>>
  ELSE LET e  == edge3(Head(list))
           cu == get(e[1], comp)
           cv == get(e[2], comp)
       IN  merge_always(relabel(cv, cu, comp), total + e[3], Tail(list))

\* @merge returns [comp, total]
RECURSIVE merge(_, _, _)
merge(comp, total, list) ==
  IF list = <<>> THEN <<comp, total>>
  ELSE LET e  == edge3(Head(list))
           cu == get(e[1], comp)
           cv == get(e[2], comp)
       IN  IF B(cu = cv) = 0
             THEN merge(relabel(cv, cu, comp), total + e[3], Tail(list))
             ELSE merge(comp, total, Tail(list))

round(comp, edges, n, total) ==
  LET mins == all_mins(comp, edges, n, 0)
  IN  merge(comp, total, mins)

RECURSIVE run(_, _, _, _, _)
run(iters, comp, edges, n, total) ==
  IF iters = 0 THEN total
  ELSE LET state == round(comp, edges, n, total)
       IN  run(iters - 1, state[1], edges, n, state[2])

\* the value of @main = @run(rounds, @comp, @edges, n, 0)
mst_main(gr, rounds) ==
  run(rounds, [i \in 1..gr.n_nodes |-> i - 1], gr.edges, gr.n_nodes, 0)

\* the states <<comp, total>> @run passes through: the one it is called with,
\* then the one each @round returns, in order
RECURSIVE run_states(_, _, _, _, _)
run_states(iters, comp, edges, n, total) ==
  IF iters = 0 THEN << <<comp, total>> >>
  ELSE The({<< <<comp, total>> >> \o run_states(iters - 1, state[1], edges, n, state[2]) :
              state \in {round(comp, edges, n, total)}})

\* the states of @main = @run(rounds, @comp, @edges, n, 0)
mst_states(gr, rounds) ==
  run_states(rounds, [i \in 1..gr.n_nodes |-> i - 1], gr.edges, gr.n_nodes, 0)

\* ------------------------------------------------------------------------
\* State
\* ------------------------------------------------------------------------
\* ------------------------------------------------------------------------
\* Benchmarks: CSR graphs, the hybrid Bellman-Ford program, the DAG program
\* ------------------------------------------------------------------------
\* the raw edges <<u, v, w>> whose source is u, in insertion order
RECURSIVE EdgesFrom(_, _)
EdgesFrom(edges, u) ==
  IF edges = <<>> THEN <<>>
  ELSE IF Head(edges)[1] = u THEN <<Head(edges)>> \o EdgesFrom(Tail(edges), u)
  ELSE EdgesFrom(Tail(edges), u)

RECURSIVE SortBySrc(_, _, _)
SortBySrc(edges, u, n) ==
  IF u >= n THEN <<>> ELSE EdgesFrom(edges, u) \o SortBySrc(edges, u + 1, n)

\* the counting sort of gen_graph / gen_dag: row_ptr over 0..n, and col_idx,
\* weight holding C index e at position e + 1
CsrOf(n, edges) ==
  LET sorted == SortBySrc(edges, 0, n)
  IN  [n  |-> n,
       rp |-> [u \in 0..n |-> Cardinality({i \in 1..Len(edges) : edges[i][1] < u})],
       ci |-> [e \in 1..Len(sorted) |-> sorted[e][2]],
       wt |-> [e \in 1..Len(sorted) |-> sorted[e][3]]]

\* the graph primitives registered by hvm4_graph_setup
graph_deg(csr, u) == csr.rp[u + 1] - csr.rp[u]
graph_target(csr, u, i) == csr.ci[csr.rp[u] + i + 1]
graph_weight(csr, u, i) == csr.wt[csr.rp[u] + i + 1]

\* bf_reference: dist is a function on 0..n-1
RECURSIVE bf_ref_edges(_, _, _, _, _)
bf_ref_edges(dist, changed, u, e, csr) ==
  IF e >= csr.rp[u + 1] THEN <<dist, changed>>
  ELSE LET nd == dist[u] + csr.wt[e + 1]
           v  == csr.ci[e + 1]
       IN  IF nd < dist[v]
             THEN bf_ref_edges([dist EXCEPT ![v] = nd], 1, u, e + 1, csr)
             ELSE bf_ref_edges(dist, changed, u, e + 1, csr)

RECURSIVE bf_ref_nodes(_, _, _, _)
bf_ref_nodes(dist, changed, u, csr) ==
  IF u >= csr.n THEN <<dist, changed>>
  ELSE IF dist[u] = 999999 THEN bf_ref_nodes(dist, changed, u + 1, csr)
  ELSE LET r == bf_ref_edges(dist, changed, u, csr.rp[u], csr)
       IN  bf_ref_nodes(r[1], r[2], u + 1, csr)

RECURSIVE bf_ref_rounds(_, _, _)
bf_ref_rounds(dist, rnd, csr) ==
  IF ~(rnd + 1 < csr.n) THEN dist
  ELSE LET r == bf_ref_nodes(dist, 0, 0, csr)
       IN  IF r[2] = 0 THEN r[1] ELSE bf_ref_rounds(r[1], rnd + 1, csr)

bf_reference(csr, src) ==
  bf_ref_rounds([i \in 0..(csr.n - 1) |-> IF i = src THEN 0 ELSE 999999], 0, csr)

\* the hybrid program; a state #S{dist, changed} is <<dist, changed>>
RECURSIVE relax_edges(_, _, _, _, _, _, _)
relax_edges(u, i, deg, du, state, csr, depth) ==
  IF B(i < deg) = 0 THEN state
  ELSE LET v     == graph_target(csr, u, i)
           new_d == du + graph_weight(csr, u, i)
           p     == q4_min_update_f(v, new_d, depth, state[1])
       IN  relax_edges(u, i + 1, deg, du, <<p[1], state[2] + p[2]>>, csr, depth)

relax_node_go(c, u, du, dist, changed, csr, depth) ==
  IF c = 0 THEN <<dist, changed>>
  ELSE relax_edges(u, 0, graph_deg(csr, u), du, <<dist, changed>>, csr, depth)

relax_node_et(u, state, csr, depth) ==
  LET p == q4_get_lin(u, depth, state[1])
  IN  relax_node_go(B(p[1] < INF), u, p[1], p[2], state[2], csr, depth)

RECURSIVE node_loop(_, _, _, _)
node_loop(i, state, csr, depth) ==
  IF B(i < csr.n) = 0 THEN state
  ELSE node_loop(i + 1, relax_node_et(i, state, csr, depth), csr, depth)

relax_round_et(state, csr, depth) == node_loop(0, <<state[1], 0>>, csr, depth)

RECURSIVE bf_loop(_, _, _, _)
\* %compact is a barrier: it returns its argument
bf_check_go(changed, n, dist, csr, depth) ==
  IF changed = 0 THEN <<dist, 0>> ELSE bf_loop(n - 1, <<dist, 1>>, csr, depth)

bf_check(n, state, csr, depth) == bf_check_go(state[2], n, state[1], csr, depth)

bf_loop(n, state, csr, depth) ==
  IF n = 0 THEN state ELSE bf_check(n, relax_round_et(state, csr, depth), csr, depth)

\* @bf_loop that goes on after a round without change
RECURSIVE bf_loop_rounds_no_exit(_, _, _, _)
bf_loop_rounds_no_exit(n, state, csr, depth) ==
  IF n = 0 THEN <<>>
  ELSE The({<<<<s[1], B(s[2] # 0)>>>>
              \o bf_loop_rounds_no_exit(n - 1, <<s[1], 1>>, csr, depth) :
              s \in {relax_round_et(state, csr, depth)}})

\* the rounds @bf_loop(n, state) executes, in order: for each round
\* <<the distances @relax_round_et returns, 1 if it reports a change else 0>>
RECURSIVE bf_loop_rounds(_, _, _, _)
bf_loop_rounds(n, state, csr, depth) ==
  IF n = 0 THEN <<>>
  ELSE The({IF s[2] = 0 THEN <<<<s[1], 0>>>>
            ELSE <<<<s[1], 1>>>> \o bf_loop_rounds(n - 1, <<s[1], 1>>, csr, depth) :
              s \in {relax_round_et(state, csr, depth)}})

\* the rounds of @bf of the program gen_hvm4_source(n, source) emits
hybrid_rounds(csr, source) ==
  LET depth     == ceil_log4(csr.n)
      rounds    == IF csr.n > 1 THEN csr.n - 1 ELSE 1
      init_dist == hb_q4_set(source, 0, depth, QE)
  IN  bf_loop_rounds(rounds, <<init_dist, 1>>, csr, depth)

RECURSIVE extract_go(_, _, _, _)
extract_go(i, p, csr, depth) ==
  IF B(i + 1 < csr.n) = 0 THEN <<p[1]>>
  ELSE <<p[1]>> \o extract_go(i + 1, q4_get_lin(i + 1, depth, p[2]), csr, depth)

\* the value of @main of the program gen_hvm4_source(n, source) emits
hybrid_main(csr, source) ==
  LET depth     == ceil_log4(csr.n)
      rounds    == IF csr.n > 1 THEN csr.n - 1 ELSE 1
      init_dist == hb_q4_set(source, 0, depth, QE)
      bf        == bf_loop(rounds, <<init_dist, 1>>, csr, depth)
  IN  IF csr.n = 0 THEN <<>>
      ELSE extract_go(0, q4_get_lin(0, depth, bf[1]), csr, depth)

\* dag_dp_reference: dist is a function on 0..n-1
RECURSIVE dag_ref_edges(_, _, _, _)
dag_ref_edges(dist, u, e, csr) ==
  IF e >= csr.rp[u + 1] THEN dist
  ELSE LET nd == csr.wt[e + 1] + dist[csr.ci[e + 1]]
       IN  IF nd < dist[u] THEN dag_ref_edges([dist EXCEPT ![u] = nd], u, e + 1, csr)
           ELSE dag_ref_edges(dist, u, e + 1, csr)

RECURSIVE dag_ref_nodes(_, _, _, _)
dag_ref_nodes(dist, u, dest, csr) ==
  IF u < 0 THEN dist
  ELSE IF u = dest THEN dag_ref_nodes(dist, u - 1, dest, csr)
  ELSE dag_ref_nodes(dag_ref_edges(dist, u, csr.rp[u], csr), u - 1, dest, csr)

dag_dp_reference(csr, src, dest) ==
  dag_ref_nodes([i \in 0..(csr.n - 1) |-> IF i = dest THEN 0 ELSE INF],
                csr.n - 1, dest, csr)[src]

\* the nick alphabet B64[64] of dag_dp.c, one character per entry
B64 ==
  <<"_", "a", "b", "c", "d", "e", "f", "g", "h", "i", "j", "k", "l", "m", "n",
    "o", "p", "q", "r", "s", "t", "u", "v", "w", "x", "y", "z",
    "A", "B", "C", "D", "E", "F", "G", "H", "I", "J", "K", "L", "M", "N",
    "O", "P", "Q", "R", "S", "T", "U", "V", "W", "X", "Y", "Z",
    "0", "1", "2", "3", "4", "5", "6", "7", "8", "9", "$">>

\* a node_name that repeats the middle digit in place of the high one
node_name_low_digits(n) ==
  <<"e", B64[((n \div 64) % 64) + 1], B64[((n \div 64) % 64) + 1],
    B64[(n % 64) + 1]>>

\* node_name(n, buf): the characters buf[0..3] (buf[4] is the terminator);
\* n >> 12 is n div 4096, n >> 6 is n div 64, & 63 is % 64
node_name(n) ==
  <<"e", B64[((n \div 4096) % 64) + 1], B64[((n \div 64) % 64) + 1],
    B64[(n % 64) + 1]>>

\* @min = \a. \b. {0: b; n. a}(a < b)
min(a, b) == IF B(a < b) = 0 THEN b ELSE a

\* @min(w_i + t_i, @min(..., w_k + t_k)) over the edges i..deg-1 of node u;
\* env maps the nodes bound so far to the values of their bindings
RECURSIVE min_chain(_, _, _, _)
min_chain(csr, u, i, env) ==
  LET e    == csr.rp[u] + i
      deg  == csr.rp[u + 1] - csr.rp[u]
      term == csr.wt[e + 1] + env[csr.ci[e + 1]]
  IN  IF i = deg - 1 THEN term ELSE min(term, min_chain(csr, u, i + 1, env))

\* the expression emitted for node u: @INF, w + t, or the nested @min
node_expr(csr, u, env) ==
  IF csr.rp[u + 1] - csr.rp[u] = 0 THEN INF ELSE min_chain(csr, u, 0, env)

\* the bindings `! &name = expr;` for u = n-2 down to 0, src and dest skipped
RECURSIVE dag_bind(_, _, _, _, _)
dag_bind(csr, u, src, dest, env) ==
  IF u < 0 THEN env
  ELSE IF u = src \/ u = dest THEN dag_bind(csr, u - 1, src, dest, env)
  ELSE dag_bind(csr, u - 1, src, dest,
                [x \in DOMAIN env \cup {u} |->
                   IF x = u THEN node_expr(csr, u, env) ELSE env[x]])

\* the value of @main of the program gen_hvm4_source(n, rp, ci, wt, src, dest)
\* of dag_dp.c emits
dag_main(csr, src, dest) ==
  node_expr(csr, src, dag_bind(csr, csr.n - 2, src, dest, [x \in {dest} |-> 0]))

\* The text gen_hvm4_source of dag_dp.c emits, as a structure: an expression
\* is [kind, terms] with kind "0" (the literal 0), "INF" (@INF), "sum"
\* (w + t) or "min" (@min(w1 + t1, @min(..., wk + tk))) and terms the pairs
\* <<weight, identifier>> in the order written.
node_text(csr, u) ==
  LET deg == csr.rp[u + 1] - csr.rp[u]
  IN  [kind  |-> IF deg = 0 THEN "INF" ELSE IF deg = 1 THEN "sum" ELSE "min",
       terms |-> [i \in 1..deg |->
                    <<csr.wt[csr.rp[u] + i], node_name(csr.ci[csr.rp[u] + i])>>]]

\* the lines `! &name = expr;` of the loop `for (u = n - 2; u >= 0; u--)`
RECURSIVE bind_lines(_, _, _, _)
bind_lines(csr, u, src, dest) ==
  IF u < 0 THEN <<>>
  ELSE IF u = src \/ u = dest THEN bind_lines(csr, u - 1, src, dest)
  ELSE <<[name |-> node_name(u), expr |-> node_text(csr, u)]>>
         \o bind_lines(csr, u - 1, src, dest)

\* gen_hvm4_source(n, rp, ci, wt, src, dest): the bindings of @main in the
\* order emitted, and the return expression
gen_hvm4_source(csr, src, dest) ==
  [binds  |-> <<[name |-> node_name(dest), expr |-> [kind |-> "0", terms |-> <<>>]]>>
                \o bind_lines(csr, csr.n - 2, src, dest),
   result |-> node_text(csr, src)]

VARIABLES
  tn,      \* trie programs: the node count the program was generated for
  trie,    \* trie programs: the current trie
  last,    \* trie programs: the last operation, its arguments and its result
  g,       \* the graph: the library handle's struct hvm4_graph, or the raw
           \* edge array of a benchmark's generator
  ret,     \* the last call: its arguments, return code or count, and output
  eng,     \* the engine's globals
  hist     \* history: adds, the number of directed edges added successfully;
           \* defined, the names the programs handed to the bridge's run so
           \* far have defined; closure, <<depth_limit, stage>> of the last
           \* successful hvm4_closure on the graph as it is now (stage 2 once
           \* another call has reset the engine since), <<>> if there is none

trieVars == <<tn, trie, last>>
libVars == <<g, ret, eng, hist>>
vars == <<tn, trie, last, g, ret, eng, hist>>

\* ------------------------------------------------------------------------
\* Trie operations at the emitted depth
\* ------------------------------------------------------------------------
TrieVals == {1, 2, INF + 1}

NoOp == [op |-> "none", key |-> 0, val |-> 0, before |-> QE, flag |-> 0]

TrieIdle == tn = 1 /\ trie = QE /\ last = NoOp

\* ------------------------------------------------------------------------
\* Library calls
\* ------------------------------------------------------------------------
\* the content of a caller's output buffer before the call
Poison == 0 - 1

NoCall == [op |-> "none", args |-> <<>>, code |-> HVM4_OK, out |-> <<>>]

NoHist == [adds |-> 0, defined |-> {}, closure |-> <<>>]

\* the history after a call other than a successful hvm4_closure has reset
\* the engine
Interleaved(h) ==
  IF h.closure = <<>> THEN h ELSE [h EXCEPT !.closure = <<h.closure[1], 2>>]

\* the engine after a successful hvm4_init() with one thread
EngReady == hvm4_init(EngStatic, 1, {"BOOK", "HEAP", "TABLE"})[1]

LibIdle == g = hvm4_graph_new(1) /\ ret = NoCall /\ eng = EngReady /\ hist = NoHist

\* hvm4_graph_new(n) has returned a handle
LibInit ==
  /\ \E n \in 1..MaxNodes : g = hvm4_graph_new(n)
  /\ ret = NoCall /\ eng = EngReady /\ hist = NoHist

\* the names each library program defines, in the order of its text
ClosureDefs == <<"adj", "any_reaches", "can_reach", "main">>

MstDefs ==
  <<"INF", "get", "relabel", "edge3", "xor_eq", "min_cross", "pick",
    "all_mins", "merge", "round", "run", "edges", "comp", "main">>

ShortestPathDefs ==
  <<"INF", "DEPTH", "q4_get", "q4_set", "q4_set_slot", "relax_edge", "foldl",
    "relax_round", "repeat", "edges", "init_dist", "bf", "main">>

ReachableDefs ==
  <<"adj", "member", "any_in", "append", "concat_map", "expand", "bfs", "main">>

\* hvm4_graph_add_edge(g, src, dst, weight); gnull: the handle passed is NULL
hvm4_graph_add_edge_call(gnull, src, dst, weight, grow_ok, oob) ==
  LET r == IF gnull THEN <<g, HVM4_ERR_INVALID_PARAM>>
           ELSE graph_add_edge(g, src, dst, weight, grow_ok, oob)
  IN  /\ g' = r[1]
      /\ ret' = [op |-> "add_edge", args |-> <<src, dst, weight>>,
                 code |-> r[2], out |-> <<>>, gnull |-> gnull]
      /\ hist' = IF r[2] # HVM4_OK THEN hist
                 ELSE [hist EXCEPT !.adds = @ + 1, !.closure = <<>>]
      /\ UNCHANGED <<eng, trieVars>>

hvm4_graph_add_edge(src, dst, weight) ==
  hvm4_graph_add_edge_call(FALSE, src, dst, weight, TRUE, "stored")

\* hvm4_graph_add_biedge(g, a, b, weight)
hvm4_graph_add_biedge_call(gnull, a, b, weight, grow_ok1, grow_ok2, oob) ==
  LET r == IF gnull THEN <<g, HVM4_ERR_INVALID_PARAM, 0>>
           ELSE graph_add_biedge(g, a, b, weight, grow_ok1, grow_ok2, oob)
  IN  /\ g' = r[1]
      /\ ret' = [op |-> "add_biedge", args |-> <<a, b, weight>>,
                 code |-> r[2], out |-> <<>>, gnull |-> gnull]
      /\ hist' = IF r[3] = 0 THEN hist
                 ELSE [hist EXCEPT !.adds = @ + r[3], !.closure = <<>>]
      /\ UNCHANGED <<eng, trieVars>>

hvm4_graph_add_biedge(a, b, weight) ==
  hvm4_graph_add_biedge_call(FALSE, a, b, weight, TRUE, TRUE, "stored")

\* hvm4_closure(g, depth_limit, matrix).  gnull, mnull: the handle or the
\* matrix passed is NULL; buf_ok, copy_ok: whether the malloc of out_buf and
\* of run_hvm4's copy succeed.
hvm4_closure_call(gnull, mnull, depth_limit, buf_ok, copy_ok) ==
  LET total   == g.n_nodes * g.n_nodes
      matrix  == IF mnull THEN <<>> ELSE [i \in 1..total |-> Poison]
      out_buf == [i \in 1..total |-> Poison]
      call    == [op |-> "closure", args |-> <<depth_limit>>,
                  gnull |-> gnull, onull |-> mnull,
                  again |-> hist.closure = <<depth_limit, 2>>,
                  code |-> HVM4_OK, out |-> matrix]
  IN  /\ IF gnull \/ mnull
           THEN /\ ret' = [call EXCEPT !.code = HVM4_ERR_INVALID_PARAM]
                /\ eng' = eng
                /\ hist' = hist
         ELSE IF ~buf_ok
           THEN /\ ret' = [call EXCEPT !.code = HVM4_ERR_ALLOC]
                /\ eng' = reset_hvm4(eng)
                /\ hist' = Interleaved(hist)
         ELSE \E main \in {ListTerm(closure_main(g, depth_limit))},
                 e1 \in {reset_hvm4(eng)} :
              \E r \in {run_hvm4(e1, Source(ClosureDefs, main),
                                 out_buf, total, copy_ok)} :
                IF r.count < 0
                  THEN /\ ret' = [call EXCEPT !.code = HVM4_ERR_HVM4_RUNTIME]
                       /\ eng' = r.eng
                       /\ hist' = Interleaved(hist)
                  ELSE /\ ret' = [call EXCEPT !.out = [i \in 1..total |->
                                         IF r.out[i] # 0 THEN 1 ELSE 0]]
                       /\ eng' = r.eng
                       /\ hist' = [hist EXCEPT !.closure = <<depth_limit, 1>>]
      /\ UNCHANGED <<g, trieVars>>

hvm4_closure(depth_limit) == hvm4_closure_call(FALSE, FALSE, depth_limit, TRUE, TRUE)

\* hvm4_mst_boruvka(g, rounds, mst_weight)
hvm4_mst_boruvka_call(gnull, wnull, rounds, copy_ok) ==
  LET weight  == IF wnull THEN <<>> ELSE <<Poison>>
      out_buf == <<Poison>>
      call    == [op |-> "mst_boruvka", args |-> <<rounds>>,
                  gnull |-> gnull, onull |-> wnull,
                  code |-> HVM4_OK, out |-> weight]
  IN  /\ IF gnull \/ wnull
           THEN /\ ret' = [call EXCEPT !.code = HVM4_ERR_INVALID_PARAM]
                /\ eng' = eng
         ELSE \E main \in {Num(mst_main(g, rounds))}, e1 \in {reset_hvm4(eng)} :
              \E r \in {run_hvm4(e1, Source(MstDefs, main), out_buf, 1, copy_ok)} :
                IF r.count < 0
                  THEN /\ ret' = [call EXCEPT !.code = HVM4_ERR_HVM4_RUNTIME]
                       /\ eng' = r.eng
                  ELSE /\ ret' = [call EXCEPT !.out = <<r.out[1]>>]
                       /\ eng' = r.eng
      /\ hist' = IF eng' = eng THEN hist ELSE Interleaved(hist)
      /\ UNCHANGED <<g, trieVars>>

hvm4_mst_boruvka(rounds) == hvm4_mst_boruvka_call(FALSE, FALSE, rounds, TRUE)

\* hvm4_reachable(g, source, target, max_depth, dist)
hvm4_reachable_call(gnull, dnull, source, target, max_depth, copy_ok) ==
  LET dist    == IF dnull THEN <<>> ELSE <<Poison>>
      out_buf == <<Poison>>
      call    == [op |-> "reachable", args |-> <<source, target, max_depth>>,
                  gnull |-> gnull, onull |-> dnull,
                  code |-> HVM4_OK, out |-> dist]
  IN  /\ IF gnull \/ dnull \/ source >= g.n_nodes \/ target >= g.n_nodes
           THEN /\ ret' = [call EXCEPT !.code = HVM4_ERR_INVALID_PARAM]
                /\ eng' = eng
         ELSE IF source = target
           THEN /\ ret' = [call EXCEPT !.out = <<0>>]
                /\ eng' = eng
         ELSE \E main \in {Num(reachable_main(g, source, target, max_depth))},
                 e1 \in {reset_hvm4(eng)} :
              \E r \in {run_hvm4(e1, Source(ReachableDefs, main),
                                 out_buf, 1, copy_ok)} :
                IF r.count < 0
                  THEN /\ ret' = [call EXCEPT !.code = HVM4_ERR_HVM4_RUNTIME]
                       /\ eng' = r.eng
                ELSE IF r.out[1] >= 999
                  THEN /\ ret' = [call EXCEPT !.code = HVM4_ERR_NO_PATH]
                       /\ eng' = r.eng
                ELSE /\ ret' = [call EXCEPT !.out = <<r.out[1]>>]
                     /\ eng' = r.eng
      /\ hist' = IF eng' = eng THEN hist ELSE Interleaved(hist)
      /\ UNCHANGED <<g, trieVars>>

hvm4_reachable(source, target, max_depth) ==
  hvm4_reachable_call(FALSE, FALSE, source, target, max_depth, TRUE)

\* hvm4_shortest_path(g, source, dist)
hvm4_shortest_path_call(gnull, dnull, source, copy_ok) ==
  LET dist == IF dnull THEN <<>> ELSE [i \in 1..g.n_nodes |-> Poison]
      call == [op |-> "shortest_path", args |-> <<source>>,
               gnull |-> gnull, onull |-> dnull,
               code |-> HVM4_OK, out |-> dist]
  IN  /\ IF gnull \/ dnull \/ source >= g.n_nodes
           THEN /\ ret' = [call EXCEPT !.code = HVM4_ERR_INVALID_PARAM]
                /\ eng' = eng
         ELSE \E main \in {ListTerm(shortest_path_main(g, source))},
                 e1 \in {reset_hvm4(eng)} :
              \E r \in {run_hvm4(e1, Source(ShortestPathDefs, main),
                                 dist, g.n_nodes, copy_ok)} :
                IF r.count < 0
                  THEN /\ ret' = [call EXCEPT !.code = HVM4_ERR_HVM4_RUNTIME]
                       /\ eng' = r.eng
                  ELSE /\ ret' = [call EXCEPT !.out = r.out]
                       /\ eng' = r.eng
      /\ hist' = IF eng' = eng THEN hist ELSE Interleaved(hist)
      /\ UNCHANGED <<g, trieVars>>

hvm4_shortest_path(source) == hvm4_shortest_path_call(FALSE, FALSE, source, TRUE)

\* ------------------------------------------------------------------------
\* Specifications
\* ------------------------------------------------------------------------
TrieInit == tn \in 1..MaxTrieN /\ trie = QE /\ last = NoOp /\ LibIdle

\* @q4_set(k, v, @DEPTH, T) of the hybrid generator
TrieSet(k, v) ==
  /\ trie' = hb_q4_set(k, v, ceil_log4(tn), trie)
  /\ last' = [op |-> "set", key |-> k, val |-> v, before |-> trie, flag |-> 0]
  /\ UNCHANGED <<tn, libVars>>

\* @q4_set(k, v, @DEPTH, T) of the library
TrieLibSet(k, v) ==
  /\ trie' = q4_set(k, v, ceil_log4_u32(tn), trie)
  /\ last' = [op |-> "lib_set", key |-> k, val |-> v, before |-> trie, flag |-> 0]
  /\ UNCHANGED <<tn, libVars>>

\* @q4_min_update_f(k, v, @DEPTH, T)
TrieMinUpdate(k, v) ==
  LET p == q4_min_update_f(k, v, ceil_log4(tn), trie)
  IN  /\ trie' = p[1]
      /\ last' = [op |-> "min_update", key |-> k, val |-> v, before |-> trie,
                  flag |-> p[2]]
      /\ UNCHANGED <<tn, libVars>>

TrieNext ==
  \E k \in 0..(tn - 1), v \in TrieVals :
    \/ TrieSet(k, v)
    \/ TrieLibSet(k, v)
    \/ TrieMinUpdate(k, v)

SpecTrie == TrieInit /\ [][TrieNext]_vars

\* the graph is built before the algorithms run on it (it is immutable once
\* they begin): no algorithm has been called yet.  SpecSP, SpecReach and
\* SpecMst build a graph and make one call on it; SpecLib makes sequences of
\* calls.
Building == ret.op \in {"none", "add_edge", "add_biedge"}

\* shortest paths: edge weights are small, or as large as the sentinel
SPWeights == {0, 1, 2, INF}

SPInit == LibInit /\ TrieIdle

SPNext ==
  \/ \E src \in 0..(g.n_nodes - 1), dst \in 0..(g.n_nodes - 1), w \in SPWeights :
       Building /\ g.n_edges < MaxEdges /\ hvm4_graph_add_edge(src, dst, w)
  \/ \E source \in 0..g.n_nodes : Building /\ hvm4_shortest_path(source)

SpecSP == SPInit /\ [][SPNext]_vars

\* reachability and closure: unweighted use of the graph store
ReachNext ==
  \/ \E src \in 0..(g.n_nodes - 1), dst \in 0..(g.n_nodes - 1) :
       Building /\ g.n_edges < MaxEdges /\ hvm4_graph_add_edge(src, dst, 1)
  \/ \E source \in 0..g.n_nodes, target \in 0..g.n_nodes, max_depth \in 0..MaxDepth :
       Building /\ hvm4_reachable(source, target, max_depth)

SpecReach == SPInit /\ [][ReachNext]_vars

ClosureNext ==
  \/ \E src \in 0..(g.n_nodes - 1), dst \in 0..(g.n_nodes - 1) :
       Building /\ g.n_edges < MaxEdges /\ hvm4_graph_add_edge(src, dst, 1)
  \/ \E depth_limit \in 0..MaxDepth : hvm4_closure(depth_limit)

SpecClosure == SPInit /\ [][ClosureNext]_vars

\* the undirected graph of example.c, Test 4
ExampleMstGraph ==
  [n_nodes |-> 4, n_edges |-> 10, capacity |-> 16, alloc |-> 16,
   edges |-> << <<0, 1, 4>>, <<1, 0, 4>>, <<0, 2, 1>>, <<2, 0, 1>>,
                <<1, 2, 2>>, <<2, 1, 2>>, <<1, 3, 5>>, <<3, 1, 5>>,
                <<2, 3, 3>>, <<3, 2, 3>> >>]

MstInit ==
  /\ \/ \E n \in 1..MstMaxNodes : g = hvm4_graph_new(n)
     \/ g = ExampleMstGraph
  /\ ret = NoCall /\ eng = EngReady /\ hist = NoHist
  /\ TrieIdle

\* edge weights: small ones, and one as large as the program's @INF
MstWeights == (1..MstMaxW) \cup {MST_INF}

MstNext ==
  \/ \E a \in 0..(g.n_nodes - 1), b \in 0..(g.n_nodes - 1), w \in MstWeights :
       Building /\ g.n_edges < 2 * MaxBiedges /\ hvm4_graph_add_biedge(a, b, w)
  \/ \E rounds \in 0..MstMaxRounds : Building /\ hvm4_mst_boruvka(rounds)

SpecMst == MstInit /\ [][MstNext]_vars

\* the Boruvka program hvm4_mst_boruvka(g, rounds, mst_weight) emits,
\* evaluated, with the states of its rounds
MstRounds(rounds) ==
  /\ ret.op \in {"none", "add_biedge"}
  /\ ret' = [op |-> "run", args |-> <<rounds>>, code |-> 0,
             out |-> <<mst_main(g, rounds)>>,
             rounds |-> mst_states(g, rounds)]
  /\ UNCHANGED <<g, eng, hist, trieVars>>

MstRoundsNext ==
  \/ \E a \in 0..(g.n_nodes - 1), b \in 0..(g.n_nodes - 1), w \in MstWeights :
       Building /\ g.n_edges < 2 * MaxBiedges /\ hvm4_graph_add_biedge(a, b, w)
  \/ \E rounds \in 0..MstMaxRounds : MstRounds(rounds)

\* a path of four nodes whose middle edge is the heaviest: the first round
\* joins the two ends, the second joins the halves
PathMstGraph ==
  [n_nodes |-> 4, n_edges |-> 6, capacity |-> 16, alloc |-> 16,
   edges |-> << <<0, 1, 1>>, <<1, 0, 1>>, <<1, 2, 3>>, <<2, 1, 3>>,
                <<2, 3, 1>>, <<3, 2, 1>> >>]

MstRoundsInit ==
  \/ MstInit
  \/ g = PathMstGraph /\ ret = NoCall /\ eng = EngReady /\ hist = NoHist /\ TrieIdle

SpecMstRounds == MstRoundsInit /\ [][MstRoundsNext]_vars

\* ------------------------------------------------------------------------
\* The hybrid Bellman-Ford benchmark on an arbitrary CSR graph
\* ------------------------------------------------------------------------
\* edge weights: small ones, and one as large as @INF (a long path in short)
BfWeights == {1, 2, INF}

BenchInit(n) ==
  /\ g = [n_nodes |-> n, edges |-> <<>>]
  /\ ret = NoCall /\ eng = EngStatic /\ hist = NoHist
  /\ TrieIdle

\* edges[ne++] = (RawEdge){u, v, w}
BenchAddEdge(u, v, w) ==
  /\ ret.op = "none"
  /\ g' = [g EXCEPT !.edges = Append(@, <<u, v, w>>)]
  /\ UNCHANGED <<ret, eng, hist, trieVars>>

\* main of hybrid_bf.c: the reference, the program's run, the extraction
HybridRun ==
  /\ ret.op = "none"
  /\ LET V   == g.n_nodes
         csr == CsrOf(V, g.edges)
         ref == bf_reference(csr, 0)
         r   == extract_nums(ListTerm(hybrid_main(csr, 0)),
                             [i \in 1..V |-> Poison], 0, V)
     IN  ret' = [op |-> "hybrid_bf", args |-> <<V>>, code |-> r[2], out |-> r[1],
                 ref |-> ref]
  /\ UNCHANGED <<g, eng, hist, trieVars>>

BfInit == \E n \in 1..BfMaxNodes : BenchInit(n)

BfNext ==
  \/ \E u \in 0..(g.n_nodes - 1), v \in 0..(g.n_nodes - 1), w \in BfWeights :
       Len(g.edges) < BfMaxEdges /\ BenchAddEdge(u, v, w)
  \/ HybridRun

SpecBF == BfInit /\ [][BfNext]_vars

\* ------------------------------------------------------------------------
\* The DAG dynamic-programming benchmark on an arbitrary forward edge set
\* ------------------------------------------------------------------------
\* main of dag_dp.c: the reference, the program's run, the extraction
DagRun ==
  /\ ret.op = "none"
  /\ LET V   == g.n_nodes
         csr == CsrOf(V, g.edges)
         ref == dag_dp_reference(csr, 0, V - 1)
         r   == extract_nums(Num(dag_main(csr, 0, V - 1)), <<Poison>>, 0, 1)
     IN  ret' = [op |-> "dag_dp", args |-> <<V>>, code |-> r[2], out |-> r[1],
                 ref |-> ref]
  /\ UNCHANGED <<g, eng, hist, trieVars>>

DagInit == \E n \in 2..DagMaxNodes : BenchInit(n)

DagNext ==
  \/ \E u \in 0..(g.n_nodes - 1), v \in 0..(g.n_nodes - 1), w \in 1..DagMaxW :
       u < v /\ Len(g.edges) < DagMaxEdges /\ BenchAddEdge(u, v, w)
  \/ DagRun

SpecDag == DagInit /\ [][DagNext]_vars

\* ------------------------------------------------------------------------
\* The relaxation rounds of the two Bellman-Ford programs
\* ------------------------------------------------------------------------
RoundsMaxNodes == 3
RoundsMaxEdges == 3
RoundsMaxW == 2

RoundsInit == \E n \in 1..RoundsMaxNodes : BenchInit(n)

\* the program gen_hvm4_source(V, source) of hybrid_bf.c emits, evaluated
RoundsHybrid(source) ==
  /\ ret.op = "none"
  /\ \E csr \in {CsrOf(g.n_nodes, g.edges)} :
       ret' = [op |-> "bf_loop", args |-> <<g.n_nodes, source>>, code |-> 0,
               out |-> hybrid_main(csr, source),
               rounds |-> hybrid_rounds(csr, source)]
  /\ UNCHANGED <<g, eng, hist, trieVars>>

\* the program hvm4_shortest_path(g, source, dist) emits, evaluated
RoundsLibrary(source) ==
  /\ ret.op = "none"
  /\ ret' = [op |-> "repeat", args |-> <<g.n_nodes, source>>, code |-> 0,
             out |-> shortest_path_main(g, source),
             rounds |-> shortest_path_rounds(g, source)]
  /\ UNCHANGED <<g, eng, hist, trieVars>>

RoundsNext ==
  \/ \E u \in 0..(g.n_nodes - 1), v \in 0..(g.n_nodes - 1), w \in 1..RoundsMaxW :
       Len(g.edges) < RoundsMaxEdges /\ BenchAddEdge(u, v, w)
  \/ \E source \in 0..(g.n_nodes - 1) : RoundsHybrid(source)
  \/ \E source \in 0..(g.n_nodes - 1) : RoundsLibrary(source)

SpecRounds == RoundsInit /\ [][RoundsNext]_vars

\* ------------------------------------------------------------------------
\* The DAG-DP benchmark's argument checks
\* ------------------------------------------------------------------------
\* V > 131072: "exceeds PARSE_BINDS limit"
PARSE_BINDS_LIMIT == 131072
\* V > 262144: "exceeds 4-char nick encoding limit"
NICK_LIMIT == 262144

\* (uint32_t)atoi(argv[1]) for non-negative arguments, which the cast keeps:
\* values around the two limits, the default and INT_MAX
DagArgV ==
  {0, 1, 2, 3, 100, 131071, 131072, 131073, 262143, 262144, 262145,
   1000000, 2147483647}

\* (uint32_t)atoi(argv[2]) for non-negative arguments
DagArgEpn == 0..7

\* main of dag_dp.c up to the generation of the program text: the checks on
\* V in the order of the code, then gen_dag, the reference, hvm4_lib_init and
\* gen_hvm4_source.  error: which message was printed before `return 1`.
DagMain(V, epn) ==
  /\ ret.op = "none"
  /\ LET call == [op |-> "dag_main", args |-> <<V, epn>>, code |-> 1,
                  out |-> <<>>, error |-> "none", emitted |-> FALSE]
     IN  IF V > PARSE_BINDS_LIMIT
           THEN ret' = [call EXCEPT !.error = "PARSE_BINDS"] /\ eng' = eng
         ELSE IF V > NICK_LIMIT
           THEN ret' = [call EXCEPT !.error = "NICK"] /\ eng' = eng
         ELSE IF V < 2
           THEN ret' = [call EXCEPT !.error = "V_MIN"] /\ eng' = eng
         ELSE /\ ret' = [call EXCEPT !.code = 0, !.emitted = TRUE]
              /\ eng' = hvm4_lib_init(eng)
  /\ UNCHANGED <<g, hist, trieVars>>

DagArgsNext == \E V \in DagArgV, epn \in DagArgEpn : DagMain(V, epn)

\* the generator of dag_dp.c called on a graph whose edges go forward
DagGen(src, dest) ==
  /\ ret.op = "none"
  /\ ret' = [op |-> "gen_hvm4_source", args |-> <<src, dest>>, code |-> 0,
             out |-> gen_hvm4_source(CsrOf(g.n_nodes, g.edges), src, dest)]
  /\ UNCHANGED <<g, eng, hist, trieVars>>

DagGenNext ==
  \/ \E u \in 0..(g.n_nodes - 1), v \in 0..(g.n_nodes - 1), w \in 1..DagMaxW :
       u < v /\ Len(g.edges) < DagMaxEdges /\ BenchAddEdge(u, v, w)
  \/ \E src \in 0..(g.n_nodes - 1), dest \in 0..(g.n_nodes - 1) : DagGen(src, dest)

SpecDagGen == DagInit /\ [][DagGenNext]_vars

\* the depth computation of the two shortest-path generators applied to one
\* node count
DepthArgs ==
  (1..130) \cup {255, 256, 257, 1023, 1024, 1025, 65536, 65537, 1048576,
                 1048577, 268435456, 268435457, 1073741823, 1073741824,
                 1073741825, 2000000000, 2147483647}

DepthInit ==
  /\ \E n \in DepthArgs : ret = [op |-> "none", args |-> <<n>>, code |-> 0, out |-> <<>>]
  /\ g = [n_nodes |-> 2, edges |-> <<>>] /\ eng = EngStatic /\ hist = NoHist
  /\ TrieIdle

\* hvm4_shortest_path: `uint32_t depth = ceil_log4_u32(g->n_nodes)`
LibDepth ==
  /\ ret.op = "none"
  /\ ret' = [ret EXCEPT !.op = "ceil_log4_u32", !.out = <<ceil_log4_u32(ret.args[1])>>]
  /\ UNCHANGED <<g, eng, hist, trieVars>>

\* gen_hvm4_source of hybrid_bf.c: `uint32_t depth = ceil_log4(n)`
HybridDepth ==
  /\ ret.op = "none"
  /\ ret' = [ret EXCEPT !.op = "ceil_log4", !.out = <<ceil_log4(ret.args[1])>>]
  /\ UNCHANGED <<g, eng, hist, trieVars>>

DepthNext == LibDepth \/ HybridDepth

SpecDepth == DepthInit /\ [][DepthNext]_vars

\* node_name applied to one node index
NameArgs ==
  (0..130) \cup {4095, 4096, 4097, 4160, 8191, 131071, 131072, 262143,
                 262144, 262145, 262208, 266240, 524287, 524288, 2147483647}

NamesInit ==
  /\ \E n \in NameArgs : ret = [op |-> "none", args |-> <<n>>, code |-> 0, out |-> <<>>]
  /\ g = [n_nodes |-> 2, edges |-> <<>>] /\ eng = EngStatic /\ hist = NoHist
  /\ TrieIdle

NodeName ==
  /\ ret.op = "none"
  /\ ret' = [ret EXCEPT !.op = "node_name", !.out = node_name(ret.args[1])]
  /\ UNCHANGED <<g, eng, hist, trieVars>>

NamesNext == NodeName

SpecNames == NamesInit /\ [][NamesNext]_vars

SpecDagArgs == BenchInit(2) /\ [][DagArgsNext]_vars

\* ------------------------------------------------------------------------
\* Normalize-mode extraction on an arbitrary result term
\* ------------------------------------------------------------------------
Terms0 == {Num(1), Num(2), Ctr(<<>>), Lam(Num(1))}

Terms1 ==
  Terms0 \cup {Ctr(<<a>>) : a \in Terms0}
         \cup {Ctr(<<a, b>>) : a \in Terms0, b \in Terms0}
         \cup {Ctr(<<a, b, c>>) : a \in Terms0, b \in Terms0, c \in Terms0}

Terms2 ==
  Terms1 \cup {Ctr(<<a>>) : a \in Terms1}
         \cup {Ctr(<<a, b>>) : a \in Terms1, b \in Terms1}

\* the caller's buffer has one slot more than the largest capacity passed
BufLen == MaxCap + 1

\* a caller about to extract from `result` into a fresh buffer
ExtractInit ==
  /\ \E result \in Terms2, max_out \in 0..MaxCap :
       ret = [op |-> "extract_call", args |-> <<result, max_out>>,
              code |-> 0, out |-> [i \in 1..BufLen |-> Poison]]
  /\ g = hvm4_graph_new(1) /\ eng = EngReady /\ hist = NoHist
  /\ TrieIdle

\* run_hvm4 on a program whose @main normalises to `result`
ExtractRun ==
  /\ ret.op = "extract_call"
  /\ \E r \in {run_hvm4(reset_hvm4(eng), Source(<<"main">>, ret.args[1]),
                         ret.out, ret.args[2], TRUE)} :
       /\ ret' = [op |-> "extract", args |-> ret.args, code |-> r.count,
                  out |-> r.out]
       /\ eng' = r.eng
  /\ UNCHANGED <<g, hist, trieVars>>

ExtractNext == ExtractRun

SpecExtract == ExtractInit /\ [][ExtractNext]_vars

\* ------------------------------------------------------------------------
\* The bridge's lifecycle: init, reset, run, cleanup in any order a caller
\* may use them
\* ------------------------------------------------------------------------
\* cells handed out beyond which no further run is started
MaxHeap == 2
\* value of FRESH beyond which no further run is started
MaxFresh == 2
\* registered names beyond which init is not called again
MaxTableLen == 4

\* program texts: with and without a definition of main
EngSources ==
  {Source(<<"main">>, Num(7)),
   Source(<<"f">>, Num(0)),
   Source(<<"f", "main">>, ListTerm(<<1, 2>>)),
   Source(<<"main", "f">>, Ctr(<<Num(3), Num(4), Num(5)>>))}

EngCaps == {0, 2}

EngBuf == [i \in 1..BufLen |-> Poison]

Usable == eng.arenas = {"BOOK", "HEAP", "TABLE"} /\ ~eng.crashed

EngInit ==
  /\ \E u \in {"crash", "skip"}, d \in {"new", "old"} :
       eng = [EngStatic EXCEPT !.ub = u, !.dup = d]
  /\ g = hvm4_graph_new(1) /\ ret = NoCall /\ hist = NoHist
  /\ TrieIdle

BridgeCall(op) ==
  [op |-> op, prev |-> ret.op, args |-> <<>>, code |-> 0, out |-> <<>>]

\* hvm4_lib_init(), at process start or after a cleanup
BridgeInit ==
  /\ eng.arenas = {} /\ ~eng.crashed /\ eng.TABLE_LEN <= MaxTableLen
  /\ eng' = hvm4_lib_init(eng)
  /\ ret' = BridgeCall("init")
  /\ UNCHANGED <<g, hist, trieVars>>

\* hvm4_lib_reset()
BridgeReset ==
  /\ Usable
  /\ eng' = hvm4_lib_reset(eng)
  /\ ret' = BridgeCall("reset")
  /\ UNCHANGED <<g, hist, trieVars>>

\* hvm4_lib_cleanup()
BridgeCleanup ==
  /\ Usable
  /\ eng' = hvm4_lib_cleanup(eng)
  /\ ret' = BridgeCall("cleanup")
  /\ UNCHANGED <<g, hist, trieVars>>

RunRecord(op, source, collapse_limit, max_out, copy_ok, stream_ok, r) ==
  [op |-> op, prev |-> ret.op, args |-> <<source, collapse_limit, max_out>>,
   copy_ok |-> copy_ok, stream_ok |-> stream_ok,
   code |-> r.count, out |-> r.out, evaluated |-> r.evaluated,
   before |-> eng.stdout,
   during |-> IF "during" \in DOMAIN r THEN r.during ELSE "none",
   printed |-> IF "printed" \in DOMAIN r THEN r.printed ELSE <<>>]

RunGuard(source) ==
  /\ Usable
  /\ Len(eng.HEAP) + Len(source.defs) <= MaxHeap
  /\ eng.FRESH <= MaxFresh

\* hvm4_run(source, collapse_limit, out, max_out)
BridgeRun(source, collapse_limit, max_out, copy_ok, stream_ok, text) ==
  /\ RunGuard(source)
  /\ \E r \in {hvm4_run(eng, source, collapse_limit, EngBuf, max_out,
                         copy_ok, stream_ok, text)} :
       /\ eng' = r.eng
       /\ ret' = RunRecord("hvm4_run", source, collapse_limit, max_out,
                           copy_ok, stream_ok, r)
       /\ hist' = IF copy_ok THEN [hist EXCEPT !.defined = @ \cup
                                      {source.defs[i] : i \in 1..Len(source.defs)}]
                  ELSE hist
  /\ UNCHANGED <<g, trieVars>>

\* run_hvm4(source, out, max_out), the library's counterpart of hvm4_run
LibRun(source, max_out, copy_ok) ==
  /\ RunGuard(source)
  /\ \E r \in {run_hvm4(eng, source, EngBuf, max_out, copy_ok)} :
       /\ eng' = r.eng
       /\ ret' = RunRecord("run_hvm4", source, 0, max_out, copy_ok, TRUE, r)
       /\ hist' = IF copy_ok THEN [hist EXCEPT !.defined = @ \cup
                                      {source.defs[i] : i \in 1..Len(source.defs)}]
                  ELSE hist
  /\ UNCHANGED <<g, trieVars>>

EngNext ==
  \/ BridgeInit
  \/ BridgeReset
  \/ BridgeCleanup
  \/ \E source \in EngSources, collapse_limit \in {0, 1}, max_out \in EngCaps,
        copy_ok \in BOOLEAN, stream_ok \in BOOLEAN :
       BridgeRun(source, collapse_limit, max_out, copy_ok, stream_ok,
                 Shown(source.main))
  \/ \E source \in EngSources, max_out \in EngCaps, copy_ok \in BOOLEAN :
       LibRun(source, max_out, copy_ok)

SpecEngine == EngInit /\ [][EngNext]_vars

\* ------------------------------------------------------------------------
\* Collapse mode of the bridge: what the evaluation prints is free
\* ------------------------------------------------------------------------
MaxText == 5
CollapseMaxOut == 2

\* digits, a blank, the end of a line, and a character that is none of these
TextChars == {"1", "2", " ", "\n", "x"}

Texts == UNION {[1..k -> TextChars] : k \in 0..MaxText}

CollapseSources == {Source(<<"main">>, Num(7)), Source(<<"f">>, Num(0))}

\* the runtime is initialised; stdout is the terminal or a file the caller
\* has pointed it to
CollapseInit ==
  /\ \E stream \in {"terminal", "file"} :
       eng = [hvm4_lib_init(EngStatic) EXCEPT !.stdout = stream]
  /\ g = hvm4_graph_new(1) /\ ret = NoCall /\ hist = NoHist
  /\ TrieIdle

CollapseNext ==
  \/ BridgeReset
  \/ /\ ret.op \in {"none", "reset"}
     /\ \E source \in CollapseSources, max_out \in 0..CollapseMaxOut, text \in Texts :
          BridgeRun(source, 1, max_out, TRUE, TRUE, text)
  \/ \E source \in CollapseSources, collapse_limit \in {0, 1},
        copy_ok \in BOOLEAN, stream_ok \in BOOLEAN :
       /\ ~(copy_ok /\ stream_ok /\ collapse_limit = 1)
       /\ BridgeRun(source, collapse_limit, CollapseMaxOut, copy_ok, stream_ok, <<>>)

SpecCollapse == CollapseInit /\ [][CollapseNext]_vars


\* whether key k has a Leaf in trie t (the walk of @q4_get, reporting presence)
RECURSIVE TrieHas(_, _)
TrieHas(key, t) ==
  IF t[1] = "QE" THEN FALSE
  ELSE IF t[1] = "QL" THEN TRUE
  ELSE TrieHas(key \div 4, t[2 + (key % 4)])

\* C5: after set(k, v) at the emitted depth, get(k) reads v, whatever the
\* trie held before (an existing Leaf at k is replaced, last write wins);
\* both the library's and the hybrid generator's trie.
C5_RoundTrip ==
  last.op \in {"set", "lib_set"} =>
    /\ hb_q4_get(last.key, ceil_log4(tn), trie) = last.val
    /\ q4_get(last.key, ceil_log4_u32(tn), trie) = last.val

\* a set at depth 2 that replaces a Leaf holding another value
C5_Witness ==
  /\ last.op = "set" /\ tn = 5 /\ last.key = 4 /\ last.val = 1
  /\ TrieHas(4, last.before)
  /\ hb_q4_get(4, ceil_log4(tn), last.before) = 2
  /\ hb_q4_get(4, ceil_log4(tn), trie) = 1

\* C6: after min_update(k, v), get(k) reads min(v, previous value of k),
\* a key missing from the trie counting as +infinity (so v itself is read).
C6_MinUpdateValue ==
  last.op = "min_update" =>
    hb_q4_get(last.key, ceil_log4(tn), trie) =
      IF TrieHas(last.key, last.before)
        THEN Min(last.val, hb_q4_get(last.key, ceil_log4(tn), last.before))
        ELSE last.val

\* a min_update with a larger value on a key already present, below a Branch
C6_Witness ==
  /\ last.op = "min_update" /\ tn = 5 /\ last.key = 4 /\ last.val = 2
  /\ TrieHas(4, last.before)
  /\ hb_q4_get(4, ceil_log4(tn), last.before) = 1
  /\ hb_q4_get(4, ceil_log4(tn), trie) = 1

\* C7: the changed flag of min_update(k, v) is 1 when the path of k ends in
\* Empty and (v < old) when it ends in Leaf(old), i.e. exactly when the value
\* stored for k decreased; Branch levels pass the leaf's flag up unchanged.
C7_ChangedFlag ==
  last.op = "min_update" =>
    LET had == TrieHas(last.key, last.before)
        old == hb_q4_get(last.key, ceil_log4(tn), last.before)
        new == hb_q4_get(last.key, ceil_log4(tn), trie)
    IN  /\ last.flag = B(~had \/ last.val < old)
        /\ (last.flag = 1) <=> (~had \/ new < old)

\* an unchanged flag (0) that travelled up through two Branch levels
C7_Witness ==
  /\ last.op = "min_update" /\ tn = 5 /\ last.key = 4
  /\ last.before[1] = "Q" /\ last.before[2][1] = "Q"
  /\ TrieHas(4, last.before)
  /\ last.val = INF + 1
  /\ last.flag = 0

\* ------------------------------------------------------------------------
\* Reference notions on the stored graph (independent of the programs)
\* ------------------------------------------------------------------------
EdgeSet(gr) == {gr.edges[i] : i \in 1..Len(gr.edges)}

\* nodes reachable from the set S along at most d edges of the edge set E
RECURSIVE ReachWithinE(_, _, _)
ReachWithinE(E, S, d) ==
  IF d = 0 THEN S
  ELSE ReachWithinE(E, S \cup {e[2] : e \in {x \in E : x[1] \in S}}, d - 1)

ReachWithin(gr, S, d) == ReachWithinE(EdgeSet(gr), S, d)

Reachable(gr, a, b) == b \in ReachWithin(gr, {a}, gr.n_nodes)

\* least number of edges of a directed path from a to b (b reachable from a)
RECURSIVE HopDist(_, _, _, _)
HopDist(gr, a, b, d) ==
  IF b \in ReachWithin(gr, {a}, d) THEN d ELSE HopDist(gr, a, b, d + 1)

\* the smallest element of a non-empty set of numbers
SetMin(S) == CHOOSE x \in S : \A y \in S : x <= y

\* least total weight of a directed walk from a to b with at most d edges
\* (b reachable from a within d edges)
RECURSIVE WalkDist(_, _, _, _)
WalkDist(gr, a, b, d) ==
  LET direct == IF a = b THEN {0} ELSE {}
      via    == IF d = 0 THEN {}
                ELSE {e[3] + WalkDist(gr, a, e[1], d - 1) :
                        e \in {x \in EdgeSet(gr) :
                                 x[2] = b /\ x[1] \in ReachWithin(gr, {a}, d - 1)}}
  IN  SetMin(direct \cup via)

TrueDist(gr, a, b) == WalkDist(gr, a, b, gr.n_nodes - 1)

RECURSIVE SumWeights(_)
SumWeights(edges) ==
  IF edges = <<>> THEN 0 ELSE Head(edges)[3] + SumWeights(Tail(edges))

C2_Reachable ==
  (ret.op = "reachable" /\ ret.code # HVM4_ERR_INVALID_PARAM
     /\ ret.args[1] # ret.args[2]) =>
    LET source == ret.args[1]
        target == ret.args[2]
        max_depth == ret.args[3]
    IN  /\ target \in ReachWithin(g, {source}, max_depth) =>
             /\ ret.code = HVM4_OK
             /\ ret.out[1] = HopDist(g, source, target, 0)
        /\ ~Reachable(g, source, target) => ret.code = HVM4_ERR_NO_PATH

\* C3: after hvm4_closure returns HVM4_OK, matrix[i*n + j] = 1 iff a directed
\* path of at most depth_limit edges leads from i to j (the empty path
\* included), and 0 otherwise, for every pair i, j, on cyclic graphs too.
C3_Closure ==
  (ret.op = "closure" /\ ret.code = HVM4_OK) =>
    /\ Len(ret.out) = g.n_nodes * g.n_nodes
    /\ \A i \in 0..(g.n_nodes - 1), j \in 0..(g.n_nodes - 1) :
         ret.out[i * g.n_nodes + j + 1] =
           IF j \in ReachWithin(g, {i}, ret.args[1]) THEN 1 ELSE 0

\* the closure of a 3-cycle cut at depth 1: one edge is followed, two are not
C3_Witness ==
  /\ ret.op = "closure" /\ ret.code = HVM4_OK /\ ret.args = <<1>>
  /\ g.edges = <<<<0, 1, 1>>, <<1, 2, 1>>, <<2, 0, 1>>>>
  /\ ret.out = <<1, 1, 0,  0, 1, 1,  1, 0, 1>>

\* every edge of the store is followed by its reverse (built by add_biedge)
IsUndirected(gr) ==
  /\ Len(gr.edges) % 2 = 0
  /\ \A i \in 1..Len(gr.edges) :
       i % 2 = 1 => gr.edges[i + 1] = <<gr.edges[i][2], gr.edges[i][1], gr.edges[i][3]>>

Connected(gr) == ReachWithin(gr, {0}, gr.n_nodes) = 0..(gr.n_nodes - 1)

RECURSIVE SumOver(_, _)
SumOver(gr, S) ==
  IF S = {} THEN 0
  ELSE LET i == CHOOSE x \in S : TRUE IN gr.edges[i][3] + SumOver(gr, S \ {i})

\* the least total weight of a set of undirected edges that connects all nodes
MSTWeight(gr) ==
  LET U == {i \in 1..Len(gr.edges) : i % 2 = 1}
      Spanning(S) ==
        ReachWithinE({gr.edges[i] : i \in S} \cup {gr.edges[i + 1] : i \in S},
                     {0}, gr.n_nodes) = 0..(gr.n_nodes - 1)
  IN  SetMin({SumOver(gr, S) : S \in {T \in SUBSET U : Spanning(T)}})

\* the least k with 2^k >= n
RECURSIVE CeilLog2(_)
CeilLog2(n) == IF n <= 1 THEN 0 ELSE 1 + CeilLog2((n + 1) \div 2)

\* C4: on a connected graph given as undirected, with at least
\* ceil(log2 n) + 1 rounds, hvm4_mst_boruvka returns the weight of a minimum
\* spanning tree, for every edge order and every pattern of equal weights;
\* the 4-node graph of example.c gives 6 with 2 rounds.
C4_MstWeight ==
  (ret.op = "mst_boruvka" /\ ret.code = HVM4_OK) =>
    /\ (IsUndirected(g) /\ Connected(g) /\ ret.args[1] >= CeilLog2(g.n_nodes) + 1)
         => ret.out[1] = MSTWeight(g)
    /\ (g = ExampleMstGraph /\ ret.args[1] = 2) => ret.out[1] = 6

\* the statement of C4 restricted to graphs whose weights are all below the
\* program's @INF = 999
MST_BelowSentinel ==
  (ret.op = "mst_boruvka" /\ ret.code = HVM4_OK
     /\ \A i \in 1..Len(g.edges) : g.edges[i][3] < MST_INF) =>
    /\ (IsUndirected(g) /\ Connected(g) /\ ret.args[1] >= CeilLog2(g.n_nodes) + 1)
         => ret.out[1] = MSTWeight(g)
    /\ (g = ExampleMstGraph /\ ret.args[1] = 2) => ret.out[1] = 6

\* a triangle whose three weights are equal: two of the edges are chosen
MST_TieWitness ==
  /\ ret.op = "mst_boruvka" /\ ret.code = HVM4_OK /\ ret.args = <<3>>
  /\ g.n_nodes = 3
  /\ g.edges = <<<<0, 1, 2>>, <<1, 0, 2>>, <<2, 1, 2>>, <<1, 2, 2>>,
                 <<0, 2, 2>>, <<2, 0, 2>>>>
  /\ ret.out = <<4>>

\* the numeric leaves of a term that lie under constructors only
RECURSIVE NumLeaves(_)
RECURSIVE NumLeavesOf(_, _)
NumLeavesOf(kids, i) ==
  IF i > Len(kids) THEN 0 ELSE NumLeaves(kids[i]) + NumLeavesOf(kids, i + 1)

NumLeaves(term) ==
  IF term[1] = "NUM" THEN 1
  ELSE IF term[1] = "CTR" THEN NumLeavesOf(term[2], 1)
  ELSE 0

C8_HybridAgrees ==
  (ret.op = "hybrid_bf") =>
    /\ ret.code = g.n_nodes
    /\ \A i \in 0..(g.n_nodes - 1) : ret.out[i + 1] = ret.ref[i]

\* the statement of C8 restricted to graphs whose weights sum to less than @INF
BF_BelowSentinel ==
  (ret.op = "hybrid_bf" /\ SumWeights(g.edges) < INF) =>
    /\ ret.code = g.n_nodes
    /\ \A i \in 0..(g.n_nodes - 1) : ret.out[i + 1] = ret.ref[i]

\* a cyclic graph on which the program and the reference agree
BF_CycleWitness ==
  /\ ret.op = "hybrid_bf"
  /\ g.edges = <<<<2, 0, 1>>, <<1, 2, 1>>, <<0, 1, 2>>>>
  /\ ret.out = <<0, 2, 3>>
  /\ ret.ref = [i \in 0..2 |-> IF i = 0 THEN 0 ELSE i + 1]

\* C9: for every edge set with src < dst on every edge, the program of the
\* DAG generator for source 0 and sink n-1 evaluates to the value
\* dag_dp_reference returns.
C9_DagAgrees ==
  (ret.op = "dag_dp") => (ret.code >= 1 /\ ret.out[1] = ret.ref)

\* the edge set contains the chain 0 -> 1 -> ... -> n-1
HasChain(gr) ==
  \A i \in 0..(gr.n_nodes - 2) :
    \E k \in 1..Len(gr.edges) : gr.edges[k][1] = i /\ gr.edges[k][2] = i + 1

\* the statement of C9 restricted to edge sets that contain the chain
DAG_WithChain ==
  (ret.op = "dag_dp" /\ HasChain(g)) => (ret.code >= 1 /\ ret.out[1] = ret.ref)

\* a chain with a shortcut: the nested minimum picks the shorter way
DAG_ChainWitness ==
  /\ ret.op = "dag_dp"
  /\ g.edges = <<<<0, 1, 2>>, <<1, 2, 2>>, <<0, 2, 1>>>>
  /\ ret.out = <<1>>
  /\ ret.ref = 1

\* ------------------------------------------------------------------------
\* The library's calls in any order, valid or not, on one graph
\* ------------------------------------------------------------------------
LibMaxNodes == 2
LibMaxEdges == 2
LibMaxDepth == 1

\* what goes wrong in a call: nothing, a null graph handle, a null output
\* pointer, the malloc of the result buffer, the malloc of the source copy
LibFaults == {"none", "gnull", "onull", "buf", "copy"}

NullFaults == {"none", "gnull", "onull"}

LibSeqInit ==
  /\ \E n \in 1..LibMaxNodes : g = hvm4_graph_new(n)
  /\ \E d \in {"new", "old"} : eng = [EngReady EXCEPT !.dup = d]
  /\ ret = NoCall /\ hist = NoHist
  /\ TrieIdle

LibNext ==
  \/ \E src \in 0..g.n_nodes, dst \in 0..g.n_nodes, gnull \in BOOLEAN :
       /\ g.n_edges < LibMaxEdges
       /\ hvm4_graph_add_edge_call(gnull, src, dst, 1, TRUE, "stored")
  \/ \E depth_limit \in 0..LibMaxDepth, f \in LibFaults :
       hvm4_closure_call(f = "gnull", f = "onull", depth_limit,
                         f # "buf", f # "copy")
  \/ \E f \in NullFaults :
       hvm4_mst_boruvka_call(f = "gnull", f = "onull", 1, TRUE)
  \/ \E source \in 0..g.n_nodes, target \in 0..g.n_nodes,
        f \in NullFaults :
       hvm4_reachable_call(f = "gnull", f = "onull", source, target,
                           LibMaxDepth, TRUE)
  \/ \E source \in 0..g.n_nodes, f \in NullFaults :
       hvm4_shortest_path_call(f = "gnull", f = "onull", source, TRUE)

SpecLib == LibSeqInit /\ [][LibNext]_vars

\* ------------------------------------------------------------------------
\* The graph store around its first growth
\* ------------------------------------------------------------------------
GraphMaxNodes == 2
\* edges already added when the exploration starts: one below the initial
\* capacity, so that the next additions fill the block and grow it
GraphPrefill == 15
GraphMaxEdges == 18

\* hvm4_graph_new(n) followed by k successful hvm4_graph_add_edge(g, 0, 0, 1)
Prefilled(n, k) ==
  [hvm4_graph_new(n) EXCEPT !.n_edges = k, !.edges = [i \in 1..k |-> <<0, 0, 1>>]]

GraphInit ==
  /\ \E n \in 1..GraphMaxNodes : g = Prefilled(n, GraphPrefill)
  /\ hist = [NoHist EXCEPT !.adds = GraphPrefill]
  /\ ret = NoCall /\ eng = EngReady
  /\ TrieIdle

GraphNext ==
  \/ \E src \in 0..g.n_nodes, dst \in 0..g.n_nodes, w \in {1, 2},
        gnull \in BOOLEAN, grow_ok \in BOOLEAN, oob \in {"stored", "junk"} :
       /\ g.n_edges < GraphMaxEdges
       /\ hvm4_graph_add_edge_call(gnull, src, dst, w, grow_ok, oob)
  \/ \E a \in 0..g.n_nodes, b \in 0..g.n_nodes, w \in {1, 2},
        gnull \in BOOLEAN, grow_ok1 \in BOOLEAN, grow_ok2 \in BOOLEAN,
        oob \in {"stored", "junk"} :
       /\ g.n_edges + 1 < GraphMaxEdges
       /\ hvm4_graph_add_biedge_call(gnull, a, b, w, grow_ok1, grow_ok2, oob)

SpecGraph == GraphInit /\ [][GraphNext]_vars

\* ------------------------------------------------------------------------
\* The bridge: run, reset, init and cleanup
\* ------------------------------------------------------------------------
RunOps == {"hvm4_run", "run_hvm4"}

\* 'main' resolves to a defined (nonzero) symbol-table entry
MainDefined(e) ==
  \E i \in 1..e.TABLE_LEN : TableSlot(e, i) = "main" /\ BookAt(e, i - 1) # 0

\* the call that has returned ended at the failed open of the capture stream
StreamFailed ==
  ret.op = "hvm4_run" /\ ret.args[2] > 0 /\ ~ret.stream_ok

\* a -1 leaves the program unevaluated and the buffer untouched; any other
\* return value is a count
RunFailsCleanly ==
  /\ ret.code = 0 - 1 => ~ret.evaluated /\ ret.out = EngBuf
  /\ ret.code # 0 - 1 => ret.code >= 0 /\ ret.evaluated

\* C11 (as stated): run returns -1 exactly when the private source copy
\* cannot be allocated or 'main' does not resolve to a defined symbol-table
\* entry after parsing; then nothing is evaluated and the output buffer is
\* untouched, and in every other case the return value is >= 0.
C11_RunFailure ==
  ret.op \in RunOps =>
    /\ ret.code = 0 - 1 <=> (~ret.copy_ok \/ ~MainDefined(eng))
    /\ RunFailsCleanly

\* C11 (amended): run returns -1 exactly when the private source copy cannot
\* be allocated, 'main' does not resolve to a defined symbol-table entry
\* after parsing, or, in collapse mode of hvm4_run, the capture stream cannot
\* be opened; then nothing is evaluated and the output buffer is untouched,
\* and in every other case the return value is >= 0.
C11_Amended ==
  ret.op \in RunOps =>
    /\ ret.code = 0 - 1 <=> (~ret.copy_ok \/ ~MainDefined(eng) \/ StreamFailed)
    /\ RunFailsCleanly

\* a program without main was parsed and the run returned -1
C11_Witness ==
  /\ ret.op \in RunOps /\ ret.copy_ok /\ ~MainDefined(eng)
  /\ ret.code = 0 - 1 /\ Len(eng.HEAP) > 0

\* the names the program text of the last run defines
RunDefines == {ret.args[1].defs[i] : i \in 1..Len(ret.args[1].defs)}

\* C12: after reset every symbol-table (BOOK) entry is zero and the name
\* table holds only the re-registered built-in names, so a run of a program
\* that does not define 'main' returns -1 even if an earlier program
\* defined it.
C12_ResetClears ==
  /\ ret.op = "reset" => eng.BOOK = {} /\ TableNames(eng) = BuiltinNames
  /\ (ret.op \in RunOps /\ ret.prev = "reset" /\ "main" \notin RunDefines)
       => ret.code = 0 - 1

\* an earlier program defined main, the engine was reset, and the run of a
\* program without main that was parsed returned -1
C12_Witness ==
  /\ ret.op \in RunOps /\ ret.prev = "reset" /\ ret.copy_ok
  /\ "main" \in hist.defined /\ "main" \notin RunDefines
  /\ ret.code = 0 - 1

\* C13: reset is idempotent and callable any number of times between init
\* and cleanup: a reset that follows a reset leaves the logical state (name
\* count, symbol table, parser bookkeeping, evaluator counters and stack
\* positions, primitive table) exactly as the first one left it, and no reset
\* changes which arenas are allocated.
C13_ResetIdempotent ==
  [][ret'.op = "reset" =>
       /\ eng'.arenas = eng.arenas /\ ~eng'.crashed
       /\ ret.op = "reset" => eng' = eng]_vars

\* a program was run and the engine then reset twice in a row
C13_Witness ==
  /\ ret.op = "reset" /\ ret.prev = "reset"
  /\ hist.defined # {} /\ eng.arenas = {"BOOK", "HEAP", "TABLE"}

\* the engine globals apart from the build's choices ub and dup
Logical(e) == [e EXCEPT !.ub = "crash", !.dup = "new"]

\* C14: cleanup is terminal (the three arena pointers are released and null,
\* so reset and run cannot be used after it), and an init after cleanup
\* returns the bridge to the Initial state: the logical state, name-table
\* length and parser/evaluator bookkeeping included, equals the state after
\* the very first init.
C14_Lifecycle ==
  /\ ret.op = "cleanup" => eng.arenas = {} /\ ~Usable
  /\ (ret.op = "init" /\ ret.prev = "cleanup")
       => Logical(eng) = Logical(hvm4_lib_init(EngStatic))

\* ------------------------------------------------------------------------
\* The library: independence of runs, parameter errors
\* ------------------------------------------------------------------------
\* the matrix hvm4_closure computes on an engine that has run nothing before
ClosureOnFresh(G, depth_limit) ==
  LET total == G.n_nodes * G.n_nodes
      r     == run_hvm4(reset_hvm4([EngReady EXCEPT !.dup = eng.dup]),
                        Source(ClosureDefs, ListTerm(closure_main(G, depth_limit))),
                        [i \in 1..total |-> Poison], total, TRUE)
  IN  [i \in 1..total |-> IF r.out[i] # 0 THEN 1 ELSE 0]

\* C15: the matrix a successful hvm4_closure writes depends on the graph and
\* depth_limit alone, whatever calls (shortest_path, mst_boruvka, reachable,
\* closure) were made before: it is the matrix computed on an engine that has
\* run nothing, so two calls on the same unmodified graph with the same
\* depth_limit give bit-identical matrices.
C15_ClosureIndependent ==
  (ret.op = "closure" /\ ret.code = HVM4_OK)
    => ret.out = ClosureOnFresh(g, ret.args[1])

\* hvm4_closure has succeeded for the second time on the same unmodified
\* graph with the same depth_limit, another call having reset the engine in
\* between, and the matrix has a set entry
C15_Witness ==
  /\ ret.op = "closure" /\ ret.code = HVM4_OK /\ ret.again
  /\ g.n_edges > 0 /\ \E i \in DOMAIN ret.out : ret.out[i] = 1

AlgorithmOps == {"closure", "mst_boruvka", "reachable", "shortest_path"}

\* the call r on graph G has a null handle, a null output pointer or a node
\* argument out of range
BadParams(r, G) ==
  \/ r.op \in {"add_edge", "add_biedge"}
       /\ (r.gnull \/ r.args[1] >= G.n_nodes \/ r.args[2] >= G.n_nodes)
  \/ r.op \in AlgorithmOps /\ (r.gnull \/ r.onull)
  \/ r.op = "shortest_path" /\ r.args[1] >= G.n_nodes
  \/ r.op = "reachable"
       /\ (r.args[1] >= G.n_nodes \/ r.args[2] >= G.n_nodes)

PoisonOnly(out) == \A i \in DOMAIN out : out[i] = Poison

\* C16: hvm4_graph_add_edge with a null handle or src >= n or dst >= n, and
\* each algorithm entry point called with a null graph, a null output pointer
\* or an out-of-range source/target, returns HVM4_ERR_INVALID_PARAM and
\* leaves the graph (n_edges, capacity, stored edges), the engine arena state
\* and the caller's output buffer unchanged.
C16_ParamErrors ==
  [][BadParams(ret', g) =>
       /\ ret'.code = HVM4_ERR_INVALID_PARAM
       /\ g' = g /\ eng' = eng /\ PoisonOnly(ret'.out)]_vars

\* a shortest-path call with a source out of range, or an add_edge with a
\* node out of range, was refused on a graph that has an edge, after the
\* engine had run a program
C16_Witness ==
  /\ BadParams(ret, g) /\ ret.code = HVM4_ERR_INVALID_PARAM
  /\ ret.op \in {"shortest_path", "add_edge"} /\ ~ret.gnull
  /\ g.n_edges > 0 /\ Len(eng.HEAP) > 0

\* ------------------------------------------------------------------------
\* The graph store
\* ------------------------------------------------------------------------
\* the edges of G2 are those of G1 followed by the sequence more
Appended(G1, G2, more) ==
  /\ G2.edges = G1.edges \o more
  /\ G2.n_edges = G1.n_edges + Len(more)

\* the code hvm4_graph_add_edge(g, src, dst, w) returns on the graph G when
\* realloc, if called, fails
FirstCode(G, r) ==
  IF r.gnull \/ r.args[1] >= G.n_nodes \/ r.args[2] >= G.n_nodes
    THEN HVM4_ERR_INVALID_PARAM ELSE HVM4_ERR_ALLOC

\* C17: hvm4_graph_add_biedge(g, a, b, w) returns HVM4_OK iff both directed
\* edges were appended, (a,b,w) first and (b,a,w) second; if the first
\* addition fails nothing is appended and its error code is returned; if only
\* the second fails the first edge stays in the graph and the second's error
\* code is returned.
C17_Biedge ==
  [][ret'.op = "add_biedge" =>
       LET a == ret'.args[1]
           b == ret'.args[2]
           w == ret'.args[3]
       IN  \/ /\ ret'.code = HVM4_OK
              /\ Appended(g, g', <<<<a, b, w>>, <<b, a, w>>>>)
           \/ /\ ret'.code = FirstCode(g, ret')
              /\ Appended(g, g', <<>>)
           \/ /\ ret'.code = HVM4_ERR_ALLOC
              /\ Appended(g, g', <<<<a, b, w>>>>)]_vars

\* C18: every stored edge has src < n_nodes and dst < n_nodes, edges appear in
\* insertion order, a successful add_edge appends exactly one edge
\* (src, dst, weight) and leaves all earlier edges unchanged, a failing one
\* appends none, and n_edges equals the number of successful directed-edge
\* additions.
C18_GraphInvariant ==
  [][/\ \A i \in 1..Len(g'.edges) :
          g'.edges[i][1] < g'.n_nodes /\ g'.edges[i][2] < g'.n_nodes
     /\ g'.n_edges = Len(g'.edges) /\ g'.n_edges = hist'.adds
     /\ ret'.op = "add_edge" =>
          IF ret'.code = HVM4_OK
            THEN Appended(g, g', <<ret'.args>>)
            ELSE Appended(g, g', <<>>)]_vars

\* ------------------------------------------------------------------------
\* The DAG-DP generator's node-count limits
\* ------------------------------------------------------------------------
\* C19: for a node count above the binding-count limit (131,072) or the
\* identifier limit (262,144) the benchmark fails before the runtime is
\* initialised and before any program text is emitted, and each of the two
\* limits is reported by its own error.
C19_NodeLimits ==
  ret.op = "dag_main" =>
    LET V == ret.args[1]
    IN  /\ V > PARSE_BINDS_LIMIT =>
             ret.code = 1 /\ ~ret.emitted /\ eng = EngStatic
        /\ V > NICK_LIMIT => ret.error = "NICK"
        /\ (V > PARSE_BINDS_LIMIT /\ V <= NICK_LIMIT) => ret.error = "PARSE_BINDS"

\* ------------------------------------------------------------------------
\* Bellman-Ford round count
\* ------------------------------------------------------------------------
\* the flags of the rounds executed, in order: 1 for a round that changed a
\* distance, 0 for one that did not
RoundFlags == [i \in 1..Len(ret.rounds) |-> ret.rounds[i][2]]

\* no round was executed after a round without change
StopsAtNoChange == \A i \in 1..(Len(RoundFlags) - 1) : RoundFlags[i] = 1

\* `limit` rounds were executed, or fewer and the last one reported no change
RoundsUpTo(limit) ==
  \/ Len(RoundFlags) = limit
  \/ /\ Len(RoundFlags) < limit /\ Len(RoundFlags) >= 1
     /\ RoundFlags[Len(RoundFlags)] = 0

\* the distances the program outputs are those of its last round
OutputOfLastRound ==
  LET n    == ret.args[1]
      final == ret.rounds[Len(ret.rounds)][1]
  IN  Len(ret.rounds) >= 1 =>
        IF ret.op = "repeat"
          THEN ret.out = [i \in 1..n |-> q4_get(i - 1, ceil_log4_u32(n), final)]
          ELSE ret.out = [i \in 1..n |-> hb_q4_get(i - 1, ceil_log4(n), final)]

NoCrossing(gr, comp) ==
  \A i \in 1..Len(gr.edges) :
    get(gr.edges[i][1], comp) = get(gr.edges[i][2], comp)

\* C21: once the component labels have converged (no edge of the graph has
\* its ends in two components) every further @round returns the same labels
\* and the same running total, so every round count r from there on makes
\* hvm4_mst_boruvka return the same weight.
C21_ExtraRounds ==
  ret.op = "run" =>
    /\ Len(ret.rounds) = ret.args[1] + 1
    /\ ret.out = <<ret.rounds[Len(ret.rounds)][2]>>
    /\ \A i \in 1..Len(ret.rounds) :
         NoCrossing(g, ret.rounds[i][1]) =>
           /\ round(ret.rounds[i][1], g.edges, g.n_nodes, ret.rounds[i][2])
                = ret.rounds[i]
           /\ \A j \in i..Len(ret.rounds) : ret.rounds[j] = ret.rounds[i]
           /\ \A r \in (i - 1)..MstMaxRounds : mst_main(g, r) = ret.rounds[i][2]

\* a connected triangle converged after its first round and two more rounds
\* were run
C21_Witness ==
  /\ ret.op = "run" /\ ret.args = <<3>> /\ g.n_nodes = 3
  /\ IsUndirected(g) /\ Connected(g)
  /\ ~NoCrossing(g, ret.rounds[1][1])
  /\ NoCrossing(g, ret.rounds[2][1])
  /\ ret.out[1] > 0

\* the number of different labels the nodes carry
NumLabels(comp) == Cardinality({comp[i] : i \in 1..Len(comp)})

\* some set of undirected edges of the graph without a cycle weighs `total`
\* and joins exactly the nodes that carry the same label
IsForestOf(gr, comp, total) ==
  LET U == {i \in 1..Len(gr.edges) : i % 2 = 1}
      Both(S) == {gr.edges[i] : i \in S} \cup {gr.edges[i + 1] : i \in S}
      Joined(S, a) == ReachWithinE(Both(S), {a}, gr.n_nodes)
  IN  \E S \in SUBSET U :
        /\ SumOver(gr, S) = total
        /\ Cardinality(S) = gr.n_nodes - NumLabels(comp)
        /\ \A a \in 0..(gr.n_nodes - 1), b \in 0..(gr.n_nodes - 1) :
             (comp[a + 1] = comp[b + 1]) <=> (b \in Joined(S, a))

\* C22: on an undirected connected graph and for every round count, the
\* total hvm4_mst_boruvka returns never exceeds the weight of a minimum
\* spanning tree; the edges whose weights were added never form a cycle (they
\* are a forest whose trees are the components of the labels) and the total
\* never decreases from one round to the next.
C22_Understates ==
  (ret.op = "run" /\ IsUndirected(g) /\ Connected(g)) =>
    /\ ret.out[1] <= MSTWeight(g)
    /\ \A i \in 1..Len(ret.rounds) :
         /\ ret.rounds[i][2] <= MSTWeight(g)
         /\ IsForestOf(g, ret.rounds[i][1], ret.rounds[i][2])
         /\ i > 1 => ret.rounds[i][2] >= ret.rounds[i - 1][2]

\* the path of four nodes after one round: two edges are chosen and the
\* total is below the weight of the spanning tree
C22_Witness ==
  /\ ret.op = "run" /\ ret.args = <<1>> /\ g = PathMstGraph
  /\ ret.out = <<2>> /\ MSTWeight(g) = 5

\* ------------------------------------------------------------------------
\* Flattening order
\* ------------------------------------------------------------------------
\* the numbers of a term read from left to right, depth first: a number is
\* itself, a constructor is its children one after the other, anything else
\* is nothing
RECURSIVE Flatten(_)
RECURSIVE FlattenAll(_, _)
FlattenAll(kids, i) ==
  IF i > Len(kids) THEN <<>> ELSE Flatten(kids[i]) \o FlattenAll(kids, i + 1)

Flatten(term) ==
  IF term[1] = "NUM" THEN <<term[2]>>
  ELSE IF term[1] = "CTR" THEN FlattenAll(term[2], 1)
  ELSE <<>>

\* C23: in normalize mode the values written are exactly the numeric leaves
\* of the result term in left-to-right depth-first order: a number gives its
\* value at the current write position, a nullary constructor nothing, a
\* two-child constructor its first child's values before its second's, any
\* other constructor its children's values in child order, and a term that
\* is neither a number nor a constructor nothing.
C23_FlattenOrder ==
  (ret.op = "extract") =>
    LET term == ret.args[1]
        cap  == ret.args[2]
        flat == Flatten(term)
    IN  /\ ret.code = Len(flat)
        /\ \A i \in 1..Len(ret.out) :
             ret.out[i] = IF i <= cap /\ i <= Len(flat) THEN flat[i] ELSE Poison

\* a three-child constructor over a two-child one: 2, then 1 and 2, then 1
C23_Witness ==
  /\ ret.op = "extract"
  /\ ret.args = <<Ctr(<<Ctr(<<Num(2), Ctr(<<>>), Num(1)>>),
                        Ctr(<<Num(2), Lam(Num(1))>>)>>), 3>>
  /\ ret.code = 3
  /\ ret.out = <<2, 1, 2, Poison>>

\* ------------------------------------------------------------------------
\* Collapse mode
\* ------------------------------------------------------------------------
\* the lines of a text: the characters between newlines; a text that ends
\* in a newline has no line after it
RECURSIVE LinesOf(_, _)
LinesOf(text, cur) ==
  IF text = <<>> THEN (IF cur = <<>> THEN <<>> ELSE <<cur>>)
  ELSE IF Head(text) = "\n" THEN <<cur>> \o LinesOf(Tail(text), <<>>)
  ELSE LinesOf(Tail(text), Append(cur, Head(text)))

\* a line without its leading blanks
RECURSIVE Trimmed(_)
Trimmed(line) ==
  IF line # <<>> /\ Head(line) = " " THEN Trimmed(Tail(line)) ELSE line

\* a line starts with an integer: after its leading blanks comes a digit
StartsWithInteger(line) == Trimmed(line) # <<>> /\ IsDigit(Head(Trimmed(line)))

\* the integer a line starts with
RECURSIVE LeadingInteger(_, _)
LeadingInteger(rest, val) ==
  IF rest # <<>> /\ IsDigit(Head(rest))
    THEN LeadingInteger(Tail(rest), 10 * val + DigitVal(Head(rest)))
    ELSE val

\* the values of the lines that start with an integer, in line order
RECURSIVE ValuesOf(_)
ValuesOf(lines) ==
  IF lines = <<>> THEN <<>>
  ELSE (IF StartsWithInteger(Head(lines))
          THEN <<LeadingInteger(Trimmed(Head(lines)), 0)>> ELSE <<>>)
       \o ValuesOf(Tail(lines))

\* the call that has returned was a collapse-mode call of hvm4_run
CollapseCall == ret.op = "hvm4_run" /\ ret.args[2] > 0

\* the text the evaluation of the last call printed
CapturedText == IF ret.printed = <<>> THEN <<>> ELSE ret.printed[2]

B64Index(c) == (CHOOSE i \in 1..64 : B64[i] = c) - 1

\* the index a name stands for, read as three base-64 digits
NameIndex(name) ==
  4096 * B64Index(name[2]) + 64 * B64Index(name[3]) + B64Index(name[4])

\* C27: node_name maps every node index in 0..262143 to a 4-character name
\* ('e' and three digits of the 64-symbol alphabet) and is injective on that
\* range, so two distinct nodes of an accepted graph never share a name;
\* an index >= 262144 has the name of index mod 262144.
C27_NodeNames ==
  /\ Len(B64) = 64 /\ Cardinality({B64[i] : i \in 1..64}) = 64
  /\ ret.op = "node_name" =>
       LET n == ret.args[1]
       IN  /\ Len(ret.out) = 4 /\ ret.out[1] = "e"
           /\ \A i \in 2..4 : \E d \in 1..64 : ret.out[i] = B64[d]
           /\ NameIndex(ret.out) = n % NICK_LIMIT
           /\ ret.out = node_name(n % NICK_LIMIT)
           /\ \A m \in NameArgs :
                (node_name(m) = ret.out) <=> (m % NICK_LIMIT = n % NICK_LIMIT)

\* the name of 4160 = 4096 + 64: "eaa_", which 262144 + 4160 shares
C27_Witness ==
  /\ ret.op = "node_name" /\ ret.args = <<4160>>
  /\ ret.out = <<"e", "a", "a", "_">>
  /\ node_name(266304) = ret.out

\* ------------------------------------------------------------------------
\* DAG-DP binding order
\* ------------------------------------------------------------------------
\* the names of the nodes hi, hi - 1, ..., 0 without the source
RECURSIVE NamesDownFrom(_, _)
NamesDownFrom(hi, src) ==
  IF hi < 0 THEN <<>>
  ELSE (IF hi = src THEN <<>> ELSE <<node_name(hi)>>) \o NamesDownFrom(hi - 1, src)

\* the identifiers an expression refers to
RefsOf(expr) == {expr.terms[i][2] : i \in 1..Len(expr.terms)}

\* the program binds every node but the source once, highest node first; the
\* source is the return expression; a node without outgoing edges, the sink
\* apart, is bound to @INF; every identifier is bound before it is used
BindingOrder(prog, csr, src, dest) ==
  /\ [i \in 1..Len(prog.binds) |-> prog.binds[i].name] = NamesDownFrom(csr.n - 1, src)
  /\ prog.result = node_text(csr, src)
  /\ \A i \in 1..Len(prog.binds) : \A u \in 0..(csr.n - 1) :
       (prog.binds[i].name = node_name(u) /\ u # dest
          /\ csr.rp[u + 1] - csr.rp[u] = 0) => prog.binds[i].expr.kind = "INF"
  /\ \A i \in 1..Len(prog.binds) :
       RefsOf(prog.binds[i].expr) \subseteq {prog.binds[j].name : j \in 1..(i - 1)}
  /\ RefsOf(prog.result) \subseteq {prog.binds[j].name : j \in 1..Len(prog.binds)}

\* C25: for every source and sink passed to the generator, the emitted @main
\* binds each node other than the source exactly once, in reverse numeric
\* order, the source is the final unbound return expression, a node with
\* zero out-degree is bound to the unreachable sentinel, and every identifier
\* referenced in a binding or in the return expression has been bound by an
\* earlier binding of the same program.
C25_BindingOrder ==
  ret.op = "gen_hvm4_source" =>
    BindingOrder(ret.out, CsrOf(g.n_nodes, g.edges), ret.args[1], ret.args[2])

\* the statement of C25 for the one call main makes: source 0, sink V - 1
DAG_MainBindingOrder ==
  (ret.op = "gen_hvm4_source" /\ ret.args = <<0, g.n_nodes - 1>>) =>
    BindingOrder(ret.out, CsrOf(g.n_nodes, g.edges), 0, g.n_nodes - 1)

\* main's call on four nodes with a dead end: node 2 has no outgoing edge
DAG_MainWitness ==
  /\ ret.op = "gen_hvm4_source" /\ ret.args = <<0, 3>> /\ g.n_nodes = 4
  /\ g.edges = <<<<0, 1, 1>>, <<0, 2, 2>>, <<1, 3, 1>>>>
  /\ [i \in 1..3 |-> ret.out.binds[i].expr.kind] = <<"0", "INF", "sum">>
  /\ ret.out.result.kind = "min"

\* ------------------------------------------------------------------------
\* Trie depth
\* ------------------------------------------------------------------------
\* the least k with 4^k >= n
RECURSIVE CeilLog4(_)
CeilLog4(n) == IF n <= 1 THEN 0 ELSE 1 + CeilLog4((n - 1) \div 4 + 1)

DepthOps == {"ceil_log4_u32", "ceil_log4"}

\* C26: for every node count n >= 1 (a 32-bit unsigned value) the depth
\* computation terminates and the @DEPTH the shortest-path generators emit
\* equals ceil(log4(n)), depth 0 being used for the smallest graphs.
C26_TrieDepth ==
  ret.op \in DepthOps =>
    /\ ret.out[1] # NoReturn
    /\ ret.out[1] = CeilLog4(ret.args[1])

\* what holds of the depth computation: up to 2^30 nodes it returns
\* ceil(log4(n)), but 1 and not 0 for n = 1; above 2^30 it does not return
Depth_UpTo2Pow30 ==
  ret.op \in DepthOps =>
    LET n == ret.args[1]
    IN  /\ n = 1 => ret.out[1] = 1
        /\ (n >= 2 /\ n <= 1073741824) => ret.out[1] = CeilLog4(n)
        /\ n > 1073741824 => ret.out[1] = NoReturn

\* 2^30 nodes give depth 15; one node more and the loop does not return
Depth_Witness ==
  /\ ret.op = "ceil_log4_u32" /\ ret.args = <<1073741824>> /\ ret.out = <<15>>
  /\ ceil_log4_u32(1073741825) = NoReturn

\* the trie read as a map on the keys 0..tn-1, by the three readers
TrieMap(t) == [k \in 0..(tn - 1) |-> hb_q4_get(k, ceil_log4(tn), t)]
LibTrieMap(t) == [k \in 0..(tn - 1) |-> q4_get(k, ceil_log4_u32(tn), t)]
LinTrieMap(t) == [k \in 0..(tn - 1) |-> q4_get_lin(k, ceil_log4(tn), t)[1]]
TrieKeys(t) == {k \in 0..(tn - 1) : TrieHas(k, t)}

\* C28: at the emitted depth a set or a min_update of key k leaves every other
\* key k' of 0..n-1 as it was: k' is present after the update exactly when it
\* was before, and every reader returns for k' what it returned before; a
\* key that is not present reads as INF.  The trie is a total map from
\* 0..n-1 to values, INF by default, of which one entry changes per update.
C28_OneKeyOnly ==
  /\ \A k \in 0..(tn - 1) : ~TrieHas(k, trie) =>
       /\ TrieMap(trie)[k] = INF
       /\ LibTrieMap(trie)[k] = INF
       /\ LinTrieMap(trie)[k] = INF
  /\ last.op \in {"set", "lib_set", "min_update"} =>
       /\ TrieKeys(trie) = TrieKeys(last.before) \cup {last.key}
       /\ \A k \in 0..(tn - 1) \ {last.key} :
            /\ TrieMap(trie)[k] = TrieMap(last.before)[k]
            /\ LibTrieMap(trie)[k] = LibTrieMap(last.before)[k]
            /\ LinTrieMap(trie)[k] = LinTrieMap(last.before)[k]
       /\ TrieMap(trie) =
            [TrieMap(last.before) EXCEPT ![last.key] =
               IF last.op = "min_update" /\ TrieHas(last.key, last.before)
                 THEN Min(last.val, @) ELSE last.val]

\* at depth 2, a set of key 0 creates a branch beside key 4 (same first
\* digit), key 1 is under another slot and key 2 was never written
C28_Witness ==
  /\ tn = 5 /\ last.op = "set" /\ last.key = 0 /\ last.val = 1
  /\ TrieKeys(last.before) = {1, 4}
  /\ TrieMap(last.before)[4] = 2 /\ TrieMap(trie)[4] = 2
  /\ TrieMap(last.before)[1] = 2 /\ TrieMap(trie)[1] = 2
  /\ TrieMap(trie)[0] = 1 /\ TrieMap(trie)[2] = INF

\* C29: whatever growth reallocations fail, the recorded capacity never
\* exceeds the number of edge slots allocated and n_edges <= capacity (so no
\* add_edge stores past the allocation), and an add_edge that fails leaves
\* n_edges, capacity and the stored edges as they were.
C29_EdgeStoreBounds ==
  [][/\ g'.capacity <= g'.alloc
     /\ g'.n_edges <= g'.capacity
     /\ g'.n_edges <= g'.alloc
     /\ (ret'.op = "add_edge" /\ ret'.code # HVM4_OK) =>
          /\ g'.n_edges = g.n_edges
          /\ g'.capacity = g.capacity
          /\ g'.edges = g.edges]_vars

\* what a failed add_edge does keep: n_edges, the stored edges and the block,
\* and n_edges <= capacity; only the recorded capacity moves
Graph_FailedAddKeeps ==
  [][/\ g'.n_edges <= g'.capacity
     /\ (ret'.op = "add_edge" /\ ret'.code # HVM4_OK) =>
          /\ g'.n_edges = g.n_edges
          /\ g'.alloc = g.alloc
          /\ g'.edges = g.edges
          /\ g'.capacity \in {g.capacity, 2 * g.capacity}]_vars

\* a failed growth has left the capacity above the block, and an edge has
\* been stored outside the block since
Graph_FailedGrowthWitness ==
  /\ ret.op = "add_edge" /\ ret.code = HVM4_OK
  /\ g.capacity = 32 /\ g.alloc = 16 /\ g.n_edges = 17

====
